---------------------------- MODULE Spec2Model ----------------------------
(***************************************************************************)
(* Hospital management application: the appointment ledger, the doctors'   *)
(* availability registry and the role-gated request handlers of            *)
(* controllers/control_auth.py, over the tables of models.py.              *)
(*                                                                         *)
(* Text fields (dates, times, the form's doctor_id) are sequences of       *)
(* one-character strings, so that parsing (datetime.strptime, int) and     *)
(* Python's code-point string comparison are computed, not assumed.        *)
(***************************************************************************)
EXTENDS Integers, Sequences, FiniteSets, TLC

VARIABLES
    session,              \* client -> the client's Flask session (role, user_id)
    doctor_blacklisted,   \* Doctor.id -> Doctor.is_blacklisted
    patient_blacklisted,  \* Patient.id -> Patient.is_blacklisted
    availability,         \* the doctor_availability table, in rowid order
    appointments,         \* the appointment table; Appointment.id is the index
    today,                \* datetime.utcnow().date(), as a proleptic ordinal
    pending,              \* client -> its booking request between check and insert
    last,                 \* the flash message of the last request handled
    treatments,           \* the treatment table, in rowid order
    patients,             \* the patient table; Patient.id is the index
    doctors               \* the doctor table; Doctor.id is the index

vars == <<session, doctor_blacklisted, patient_blacklisted, availability,
          appointments, today, pending, last, treatments, patients, doctors>>

-----------------------------------------------------------------------------
(* Text                                                                    *)

Digits == <<"0", "1", "2", "3", "4", "5", "6", "7", "8", "9">>

IsDigit(c) == c \in {"0", "1", "2", "3", "4", "5", "6", "7", "8", "9"}

DigitVal(c) ==
    CASE c = "0" -> 0 [] c = "1" -> 1 [] c = "2" -> 2 [] c = "3" -> 3
      [] c = "4" -> 4 [] c = "5" -> 5 [] c = "6" -> 6 [] c = "7" -> 7
      [] c = "8" -> 8 [] c = "9" -> 9

\* Unicode code point of the characters the model's texts are made of.
Ord(c) ==
    CASE c = " " -> 32
      [] c = "-" -> 45
      [] c = ":" -> 58
      [] c = "_" -> 95
      [] OTHER   -> 48 + DigitVal(c)

\* A comparison that looks at the first characters only.
StrLess_first_char(a, b) ==
    IF b = <<>> THEN FALSE
    ELSE IF a = <<>> THEN TRUE
    ELSE Ord(Head(a)) < Ord(Head(b))

\* Python's str < str: code point by code point, a proper prefix is smaller.
RECURSIVE StrLess(_, _)
StrLess(a, b) ==
    IF b = <<>> THEN FALSE
    ELSE IF a = <<>> THEN TRUE
    ELSE IF Ord(Head(a)) # Ord(Head(b)) THEN Ord(Head(a)) < Ord(Head(b))
    ELSE StrLess(Tail(a), Tail(b))

RECURSIVE LStrip(_)
LStrip(s) == IF s # <<>> /\ Head(s) = " " THEN LStrip(Tail(s)) ELSE s

RECURSIVE RStrip(_)
RStrip(s) ==
    IF s # <<>> /\ s[Len(s)] = " " THEN RStrip(SubSeq(s, 1, Len(s) - 1)) ELSE s

\* str.strip()
Strip(s) == RStrip(LStrip(s))

RECURSIVE DecimalValue(_)
DecimalValue(s) ==
    IF s = <<>> THEN 0
    ELSE 10 * DecimalValue(SubSeq(s, 1, Len(s) - 1)) + DigitVal(s[Len(s)])

AllDigits(s) == \A i \in 1..Len(s) : IsDigit(s[i])

\* The text without its leading minus sign.
Unsigned(s) == IF s # <<>> /\ Head(s) = "-" THEN Tail(s) ELSE s

\* The digits of the text, in order.
DigitsOf(s) == SelectSeq(s, IsDigit)

\* int(s) succeeds: blanks around, an optional sign, then decimal digits that
\* single underscores may group ("0_1" is 1); anything else raises
\* ValueError.
IntOk(s) ==
    LET b == Unsigned(Strip(s)) IN
    /\ b # <<>>
    /\ IsDigit(b[1]) /\ IsDigit(b[Len(b)])
    /\ \A i \in 1..Len(b) : IsDigit(b[i]) \/ b[i] = "_"
    /\ \A i \in 1..(Len(b) - 1) : ~(b[i] = "_" /\ b[i + 1] = "_")

\* int(s)
IntOf(s) ==
    LET v == DecimalValue(DigitsOf(Unsigned(Strip(s)))) IN
    IF Strip(s) # <<>> /\ Head(Strip(s)) = "-" THEN 0 - v ELSE v

\* SQLite's `integer_column = ?` with a text bound to the parameter, as
\* filter_by(doctor_id=doc_id) binds the form field: the column's INTEGER
\* affinity converts the text when it is a well-formed numeral (blanks
\* around, an optional sign, decimal digits) and compares the numbers; any
\* other text stays TEXT and equals no integer.
sqlite_integer_equals(column, text) ==
    LET t == Strip(text)
        b == Unsigned(t)
    IN
    /\ b # <<>> /\ AllDigits(b)
    /\ column = (IF Head(t) = "-" THEN 0 - DecimalValue(b) ELSE DecimalValue(b))

-----------------------------------------------------------------------------
(* Calendar dates and clock times: datetime.strptime                       *)

IsLeap(y) == (y % 4 = 0) /\ ((y % 100 # 0) \/ (y % 400 = 0))

DaysInMonth(y, m) ==
    IF m = 2 THEN (IF IsLeap(y) THEN 29 ELSE 28)
    ELSE IF m \in {4, 6, 9, 11} THEN 30 ELSE 31

RECURSIVE DaysBeforeMonth(_, _)
DaysBeforeMonth(y, m) ==
    IF m = 1 THEN 0 ELSE DaysBeforeMonth(y, m - 1) + DaysInMonth(y, m - 1)

\* date.toordinal(): dates are ordered as their ordinals are.
Ordinal(y, m, d) ==
    LET p == y - 1
    IN  p * 365 + (p \div 4) - (p \div 100) + (p \div 400)
          + DaysBeforeMonth(y, m) + d

NoDate == 0

\* The %m directive: 1[0-2] | 0[1-9] | [1-9]
MonthTok(t) ==
    \/ Len(t) = 2 /\ t[1] = "1" /\ t[2] \in {"0", "1", "2"}
    \/ Len(t) = 2 /\ t[1] = "0" /\ IsDigit(t[2]) /\ t[2] # "0"
    \/ Len(t) = 1 /\ IsDigit(t[1]) /\ t[1] # "0"

\* The %d directive: 3[0-1] | [1-2]\d | 0[1-9] | [1-9] | " "[1-9]
DayTok(t) ==
    \/ Len(t) = 2 /\ t[1] = "3" /\ t[2] \in {"0", "1"}
    \/ Len(t) = 2 /\ t[1] \in {"1", "2"} /\ IsDigit(t[2])
    \/ Len(t) = 2 /\ t[1] \in {"0", " "} /\ IsDigit(t[2]) /\ t[2] # "0"
    \/ Len(t) = 1 /\ IsDigit(t[1]) /\ t[1] # "0"

\* datetime.strptime(s, '%Y-%m-%d').date() as an ordinal; NoDate when it
\* raises ValueError (no match, unconverted data, day out of range).
ParseDate(s) ==
    IF \E ml \in {1, 2}, dl \in {1, 2} :
          /\ Len(s) = 6 + ml + dl
          /\ AllDigits(SubSeq(s, 1, 4))
          /\ s[5] = "-"
          /\ s[6 + ml] = "-"
          /\ MonthTok(SubSeq(s, 6, 5 + ml))
          /\ DayTok(SubSeq(s, 7 + ml, Len(s)))
    THEN LET ml == IF s[7] = "-" THEN 1 ELSE 2
             y  == DecimalValue(SubSeq(s, 1, 4))
             m  == DecimalValue(SubSeq(s, 6, 5 + ml))
             d  == DecimalValue(LStrip(SubSeq(s, 7 + ml, Len(s))))
         IN  IF y >= 1 /\ d <= DaysInMonth(y, m) THEN Ordinal(y, m, d)
             ELSE NoDate
    ELSE NoDate

NoTime == -1

\* The %H directive: 2[0-3] | [0-1]\d | \d
HourTok(t) ==
    \/ Len(t) = 2 /\ t[1] = "2" /\ t[2] \in {"0", "1", "2", "3"}
    \/ Len(t) = 2 /\ t[1] \in {"0", "1"} /\ IsDigit(t[2])
    \/ Len(t) = 1 /\ IsDigit(t[1])

\* The %M directive: [0-5]\d | \d
MinuteTok(t) ==
    \/ Len(t) = 2 /\ t[1] \in {"0", "1", "2", "3", "4", "5"} /\ IsDigit(t[2])
    \/ Len(t) = 1 /\ IsDigit(t[1])

\* datetime.strptime(s, '%H:%M').time() as minutes since midnight; NoTime
\* when it raises ValueError.
ParseTime(s) ==
    IF \E hl \in {1, 2}, nl \in {1, 2} :
          /\ Len(s) = hl + 1 + nl
          /\ s[hl + 1] = ":"
          /\ HourTok(SubSeq(s, 1, hl))
          /\ MinuteTok(SubSeq(s, hl + 2, Len(s)))
    THEN LET hl == IF s[2] = ":" THEN 1 ELSE 2
         IN  60 * DecimalValue(SubSeq(s, 1, hl))
               + DecimalValue(SubSeq(s, hl + 2, Len(s)))
    ELSE NoTime


-----------------------------------------------------------------------------
(* Tables and sessions                                                     *)

\* Browsers, each with a session cookie of its own.
Clients == 1..5

DoctorIds == {1, 2}

PatientIds == {1, 2}

\* Doctor.email / Patient.email of the seeded rows, and the passwords they
\* were given with set_password (check_password_hash accepts exactly that
\* one); text is a sequence of characters.
john_hospital ==
    <<"j", "o", "h", "n", "@", "h", "o", "s", "p", "i", "t", "a", "l", ".",
      "c", "o", "m">>

sarah_hospital ==
    <<"s", "a", "r", "a", "h", "@", "h", "o", "s", "p", "i", "t", "a", "l",
      ".", "c", "o", "m">>

DoctorEmail == <<john_hospital, sarah_hospital>>

john_patient ==
    <<"j", "o", "h", "n", "@", "p", "a", "t", "i", "e", "n", "t", ".", "c",
      "o", "m">>

jane_patient ==
    <<"j", "a", "n", "e", "@", "p", "a", "t", "i", "e", "n", "t", ".", "c",
      "o", "m">>

PatientEmail == <<john_patient, jane_patient>>

DoctorPassword == <<"d", "o", "c", "t", "o", "r", "1", "2", "3">>

PatientPassword == <<"p", "a", "t", "i", "e", "n", "t", "1", "2", "3">>

AdminUsername == <<"a", "d", "m", "i", "n">>

AdminPassword == <<"a", "d", "m", "i", "n", "1", "2", "3">>

\* The doctor and patient tables as db_init seeds them.
SeededDoctors ==
    << [email |-> DoctorEmail[1], password |-> DoctorPassword],
       [email |-> DoctorEmail[2], password |-> DoctorPassword] >>

SeededPatients ==
    << [email |-> PatientEmail[1], password |-> PatientPassword],
       [email |-> PatientEmail[2], password |-> PatientPassword] >>

\* Model.query.filter_by(email=email).first(): the id of the row, 0 for None.
user_by_email(rows, email) ==
    LET found == {i \in DOMAIN rows : rows[i].email = email}
    IN  IF found = {} THEN 0 ELSE CHOOSE i \in found : \A j \in found : i <= j

\* user.is_blacklisted; False, the column's default, for a row registered
\* since the seeding.
is_blacklisted(flags, id) == id \in DOMAIN flags /\ flags[id]

\* An empty Flask session: no 'role' key.
NoSession == [role |-> "", user_id |-> 0]

\* No booking request in flight.
NoRequest == [patient_id |-> 0, doctor_id |-> 0, date |-> <<>>, time |-> <<>>]

Statuses == {"Booked", "Completed", "Cancelled"}

\* flash(message, category): the message of the request just handled, by a
\* tag per message text of the source ("NotFound" for get_or_404's 404).
Flash(message) == message

\* What a POST request answers with, by the tag of its message: get_or_404
\* aborts with the 404 page, every other path of the handlers returns
\* redirect(...).
response_of(message) == IF message = "NotFound" THEN "404" ELSE "redirect"

\* A guard that lets every logged-in user through.
role_required_any_role(c, required_role) ==
    IF session[c].role = "" THEN "LoginRequired" ELSE ""

\* role_required(required_role): "" when the handler's body runs.
role_required(c, required_role) ==
    IF session[c].role = "" THEN "LoginRequired"
    ELSE IF session[c].role # required_role THEN "AccessDenied"
    ELSE ""

\* A fresh deployment: the seeded tables, nobody logged in.
Fresh ==
    /\ session = [c \in Clients |-> NoSession]
    /\ doctor_blacklisted = [d \in DoctorIds |-> FALSE]
    /\ patient_blacklisted = [p \in PatientIds |-> FALSE]
    /\ availability = <<>>
    /\ appointments = <<>>
    /\ today = Ordinal(2024, 6, 1)
    /\ pending = [c \in Clients |-> NoRequest]
    /\ last = Flash("")
    /\ treatments = <<>>
    /\ patients = SeededPatients
    /\ doctors = SeededDoctors

-----------------------------------------------------------------------------
(* login / logout                                                          *)

\* login() without the is_blacklisted tests.
login_result_ignores_blacklist(role, identifier, password) ==
    LET doc == user_by_email(doctors, identifier)
        pat == user_by_email(patients, identifier)
    IN
    IF role = "" \/ identifier = <<>> \/ password = <<>> THEN "FillAllFields"
    ELSE IF role = "admin" THEN
        IF identifier = AdminUsername /\ password = AdminPassword
        THEN "AdminLoginSuccessful" ELSE "InvalidAdminCredentials"
    ELSE IF role = "doctor" THEN
        IF doc = 0 THEN "DoctorNotFound"
        ELSE IF password = doctors[doc].password THEN "DoctorLoginSuccessful"
        ELSE "InvalidCredentials"
    ELSE IF role = "patient" THEN
        IF pat = 0 THEN "PatientNotFound"
        ELSE IF password = patients[pat].password THEN "PatientLoginSuccessful"
        ELSE "InvalidCredentials"
    ELSE "InvalidRole"

\* The path login() takes on the stripped identifier: the flash message it
\* ends with.
login_result(role, identifier, password) ==
    LET doc == user_by_email(doctors, identifier)
        pat == user_by_email(patients, identifier)
    IN
    IF role = "" \/ identifier = <<>> \/ password = <<>> THEN "FillAllFields"
    ELSE IF role = "admin" THEN
        IF identifier = AdminUsername /\ password = AdminPassword
        THEN "AdminLoginSuccessful" ELSE "InvalidAdminCredentials"
    ELSE IF role = "doctor" THEN
        IF doc = 0 THEN "DoctorNotFound"
        ELSE IF is_blacklisted(doctor_blacklisted, doc) THEN "AccountBlocked"
        ELSE IF password = doctors[doc].password THEN "DoctorLoginSuccessful"
        ELSE "InvalidCredentials"
    ELSE IF role = "patient" THEN
        IF pat = 0 THEN "PatientNotFound"
        ELSE IF is_blacklisted(patient_blacklisted, pat) THEN "AccountBlocked"
        ELSE IF password = patients[pat].password THEN "PatientLoginSuccessful"
        ELSE "InvalidCredentials"
    ELSE "InvalidRole"

\* login (POST)
login(c, role, identifier, password) ==
    LET id == Strip(identifier)
        r == login_result(role, id, password)
        uid == IF role = "doctor" THEN user_by_email(doctors, id)
               ELSE IF role = "patient" THEN user_by_email(patients, id)
               ELSE 0
    IN
    /\ session' = IF r \in {"AdminLoginSuccessful", "DoctorLoginSuccessful",
                              "PatientLoginSuccessful"}
                  THEN [session EXCEPT ![c] = [role |-> role, user_id |-> uid]]
                  ELSE session
    /\ last' = Flash(r)
    /\ UNCHANGED <<doctor_blacklisted, patient_blacklisted, availability,
                   appointments, today, pending, treatments, patients, doctors>>

\* A registration that does not look the email up.
register_patient_result_no_lookup(name, email, password) ==
    IF name = <<>> \/ email = <<>> \/ password = <<>>
    THEN "RegistrationFieldsRequired"
    ELSE "RegistrationSuccessful"

\* The path register_patient (POST) takes on the stripped fields.
register_patient_result(name, email, password) ==
    IF name = <<>> \/ email = <<>> \/ password = <<>>
    THEN "RegistrationFieldsRequired"
    ELSE IF user_by_email(patients, email) # 0 THEN "EmailAlreadyRegistered"
    ELSE "RegistrationSuccessful"

\* register_patient (POST): no role is required.
register_patient(c, name, email, password) ==
    LET r == register_patient_result(Strip(name), Strip(email), Strip(password))
    IN
    /\ patients' =
          IF r = "RegistrationSuccessful"
          THEN Append(patients, [email |-> Strip(email), password |-> Strip(password)])
          ELSE patients
    /\ last' = Flash(r)
    /\ UNCHANGED <<session, doctor_blacklisted, patient_blacklisted, availability,
                   appointments, today, pending, treatments, doctors>>

\* The path register_doctor (POST) takes on the stripped fields.
register_doctor_result(c, name, email, password) ==
    IF role_required(c, "admin") # "" THEN role_required(c, "admin")
    ELSE IF name = <<>> \/ email = <<>> \/ password = <<>>
    THEN "DoctorFieldsRequired"
    ELSE IF user_by_email(doctors, email) # 0 THEN "DoctorEmailAlreadyRegistered"
    ELSE "DoctorCreated"

\* register_doctor (POST)
register_doctor(c, name, email, password) ==
    LET r == register_doctor_result(c, Strip(name), Strip(email), Strip(password))
    IN
    /\ doctors' =
          IF r = "DoctorCreated"
          THEN Append(doctors, [email |-> Strip(email), password |-> Strip(password)])
          ELSE doctors
    /\ last' = Flash(r)
    /\ UNCHANGED <<session, doctor_blacklisted, patient_blacklisted, availability,
                   appointments, today, pending, treatments, patients>>

logout(c) ==
    /\ session' = [session EXCEPT ![c] = NoSession]
    /\ last' = Flash("LoggedOut")
    /\ UNCHANGED <<doctor_blacklisted, patient_blacklisted, availability,
                   appointments, today, pending, treatments,
                   patients, doctors>>

-----------------------------------------------------------------------------
(* Admin: blacklist toggles and appointment status                         *)

admin_toggle_doctor_blacklist(c, doc_id) ==
    LET g == role_required(c, "admin") IN
    IF g # "" THEN
        /\ last' = Flash(g)
        /\ UNCHANGED <<session, doctor_blacklisted, patient_blacklisted,
                       availability, appointments, today, pending, treatments,
                       patients, doctors>>
    ELSE IF doc_id \notin DoctorIds THEN
        /\ last' = Flash("NotFound")
        /\ UNCHANGED <<session, doctor_blacklisted, patient_blacklisted,
                       availability, appointments, today, pending, treatments,
                       patients, doctors>>
    ELSE
        /\ doctor_blacklisted' =
              [doctor_blacklisted EXCEPT ![doc_id] = ~doctor_blacklisted[doc_id]]
        /\ last' = Flash(IF doctor_blacklisted[doc_id] THEN "DoctorUnblocked"
                         ELSE "DoctorBlocked")
        /\ UNCHANGED <<session, patient_blacklisted, availability,
                       appointments, today, pending, treatments,
                       patients, doctors>>

admin_toggle_patient_blacklist(c, pat_id) ==
    LET g == role_required(c, "admin") IN
    IF g # "" THEN
        /\ last' = Flash(g)
        /\ UNCHANGED <<session, doctor_blacklisted, patient_blacklisted,
                       availability, appointments, today, pending, treatments,
                       patients, doctors>>
    ELSE IF pat_id \notin PatientIds THEN
        /\ last' = Flash("NotFound")
        /\ UNCHANGED <<session, doctor_blacklisted, patient_blacklisted,
                       availability, appointments, today, pending, treatments,
                       patients, doctors>>
    ELSE
        /\ patient_blacklisted' =
              [patient_blacklisted EXCEPT ![pat_id] = ~patient_blacklisted[pat_id]]
        /\ last' = Flash(IF patient_blacklisted[pat_id] THEN "PatientUnblocked"
                         ELSE "PatientBlocked")
        /\ UNCHANGED <<session, doctor_blacklisted, availability,
                       appointments, today, pending, treatments,
                       patients, doctors>>

\* The path admin_update_appointment_status takes.
admin_update_appointment_status_result(c, appt_id, new_status) ==
    IF role_required(c, "admin") # "" THEN role_required(c, "admin")
    ELSE IF appt_id \notin DOMAIN appointments THEN "NotFound"
    ELSE IF new_status \notin {"Booked", "Completed", "Cancelled"} THEN "InvalidStatus"
    ELSE "StatusUpdated"

\* An update that writes the status before it tests it.
admin_update_appointment_status_writes_first(c, appt_id, new_status) ==
    LET r == admin_update_appointment_status_result(c, appt_id, new_status) IN
    /\ appointments' = IF r \in {"StatusUpdated", "InvalidStatus"}
                       THEN [appointments EXCEPT ![appt_id].status = new_status]
                       ELSE appointments
    /\ last' = Flash(r)
    /\ UNCHANGED <<session, doctor_blacklisted, patient_blacklisted,
                   availability, today, pending, treatments,
                   patients, doctors>>

\* admin_update_appointment_status (POST)
admin_update_appointment_status(c, appt_id, new_status) ==
    LET r == admin_update_appointment_status_result(c, appt_id, new_status) IN
    /\ appointments' = IF r = "StatusUpdated"
                       THEN [appointments EXCEPT ![appt_id].status = new_status]
                       ELSE appointments
    /\ last' = Flash(r)
    /\ UNCHANGED <<session, doctor_blacklisted, patient_blacklisted,
                   availability, today, pending, treatments,
                   patients, doctors>>

-----------------------------------------------------------------------------
(* Doctor: appointment status and the availability registry                *)

\* The path doctor_update_appointment_status takes.
doctor_update_appointment_status_result(c, appt_id, new_status) ==
    IF role_required(c, "doctor") # "" THEN role_required(c, "doctor")
    ELSE IF appt_id \notin DOMAIN appointments THEN "NotFound"
    ELSE IF appointments[appt_id].doctor_id # session[c].user_id
        THEN "NotAuthorizedToUpdate"
    ELSE IF new_status \notin {"Booked", "Completed", "Cancelled"} THEN "InvalidStatus"
    ELSE "StatusUpdated"

doctor_update_appointment_status(c, appt_id, new_status) ==
    LET r == doctor_update_appointment_status_result(c, appt_id, new_status) IN
    /\ appointments' = IF r = "StatusUpdated"
                       THEN [appointments EXCEPT ![appt_id].status = new_status]
                       ELSE appointments
    /\ last' = Flash(r)
    /\ UNCHANGED <<session, doctor_blacklisted, patient_blacklisted,
                   availability, today, pending, treatments,
                   patients, doctors>>

\* The checks with the seventh day left out of the range.
doctor_add_availability_result_seven_exclusive(c, start_date, end_date, start_time, end_time) ==
    LET start_date_obj == ParseDate(start_date)
        end_date_obj   == ParseDate(end_date)
        max_date       == today + 7
        start_time_obj == ParseTime(start_time)
        end_time_obj   == ParseTime(end_time)
    IN
    IF role_required(c, "doctor") # "" THEN role_required(c, "doctor")
    ELSE IF start_date = <<>> \/ end_date = <<>> \/ start_time = <<>> \/ end_time = <<>>
        THEN "AvailabilityFieldsRequired"
    ELSE IF start_date_obj = NoDate \/ end_date_obj = NoDate THEN "InvalidDate"
    ELSE IF start_date_obj < today THEN "StartInPast"
    ELSE IF end_date_obj >= max_date THEN "RangeTooFar"
    ELSE IF end_date_obj < start_date_obj THEN "EndBeforeStart"
    ELSE IF start_time_obj = NoTime \/ end_time_obj = NoTime THEN "InvalidTime"
    ELSE IF end_time_obj <= start_time_obj THEN "EndTimeNotAfterStart"
    ELSE "AvailabilitySet"

\* The checks with an end time equal to the start time let through.
doctor_add_availability_result_equal_times(c, start_date, end_date, start_time, end_time) ==
    LET start_date_obj == ParseDate(start_date)
        end_date_obj   == ParseDate(end_date)
        max_date       == today + 7
        start_time_obj == ParseTime(start_time)
        end_time_obj   == ParseTime(end_time)
    IN
    IF role_required(c, "doctor") # "" THEN role_required(c, "doctor")
    ELSE IF start_date = <<>> \/ end_date = <<>> \/ start_time = <<>> \/ end_time = <<>>
        THEN "AvailabilityFieldsRequired"
    ELSE IF start_date_obj = NoDate \/ end_date_obj = NoDate THEN "InvalidDate"
    ELSE IF start_date_obj < today THEN "StartInPast"
    ELSE IF end_date_obj > max_date THEN "RangeTooFar"
    ELSE IF end_date_obj < start_date_obj THEN "EndBeforeStart"
    ELSE IF start_time_obj = NoTime \/ end_time_obj = NoTime THEN "InvalidTime"
    ELSE IF end_time_obj < start_time_obj THEN "EndTimeNotAfterStart"
    ELSE "AvailabilitySet"

\* The path doctor_add_availability takes on the stripped form fields.
doctor_add_availability_result(c, start_date, end_date, start_time, end_time) ==
    LET start_date_obj == ParseDate(start_date)
        end_date_obj   == ParseDate(end_date)
        max_date       == today + 7
        start_time_obj == ParseTime(start_time)
        end_time_obj   == ParseTime(end_time)
    IN
    IF role_required(c, "doctor") # "" THEN role_required(c, "doctor")
    ELSE IF start_date = <<>> \/ end_date = <<>> \/ start_time = <<>> \/ end_time = <<>>
        THEN "AvailabilityFieldsRequired"
    ELSE IF start_date_obj = NoDate \/ end_date_obj = NoDate THEN "InvalidDate"
    ELSE IF start_date_obj < today THEN "StartInPast"
    ELSE IF end_date_obj > max_date THEN "RangeTooFar"
    ELSE IF end_date_obj < start_date_obj THEN "EndBeforeStart"
    ELSE IF start_time_obj = NoTime \/ end_time_obj = NoTime THEN "InvalidTime"
    ELSE IF end_time_obj <= start_time_obj THEN "EndTimeNotAfterStart"
    ELSE "AvailabilitySet"

\* A registration that leaves out a window the registry already holds.
doctor_add_availability_dedups(c, start_date, end_date, start_time, end_time) ==
    LET sd == Strip(start_date)
        ed == Strip(end_date)
        st == Strip(start_time)
        et == Strip(end_time)
        r  == doctor_add_availability_result(c, sd, ed, st, et)
        w  == [doctor_id |-> session[c].user_id, start_date |-> sd,
               end_date |-> ed, start_time |-> st, end_time |-> et]
    IN
    /\ availability' =
          IF r = "AvailabilitySet" /\ ~(\E i \in DOMAIN availability : availability[i] = w)
          THEN Append(availability, w)
          ELSE availability
    /\ last' = Flash(r)
    /\ UNCHANGED <<session, doctor_blacklisted, patient_blacklisted,
                   appointments, today, pending, treatments,
                   patients, doctors>>

\* doctor_add_availability (POST)
doctor_add_availability(c, start_date, end_date, start_time, end_time) ==
    LET sd == Strip(start_date)
        ed == Strip(end_date)
        st == Strip(start_time)
        et == Strip(end_time)
        r  == doctor_add_availability_result(c, sd, ed, st, et)
    IN
    /\ availability' =
          IF r = "AvailabilitySet"
          THEN Append(availability,
                      [doctor_id |-> session[c].user_id, start_date |-> sd,
                       end_date |-> ed, start_time |-> st, end_time |-> et])
          ELSE availability
    /\ last' = Flash(r)
    /\ UNCHANGED <<session, doctor_blacklisted, patient_blacklisted,
                   appointments, today, pending, treatments,
                   patients, doctors>>

\* The path doctor_delete_availability takes; avail_id names a row by its
\* place in rowid order.
doctor_delete_availability_result(c, avail_id) ==
    IF role_required(c, "doctor") # "" THEN role_required(c, "doctor")
    ELSE IF avail_id \notin DOMAIN availability THEN "NotFound"
    ELSE IF availability[avail_id].doctor_id # session[c].user_id
        THEN "NotAuthorizedToDelete"
    ELSE "AvailabilityDeleted"

doctor_delete_availability(c, avail_id) ==
    LET r == doctor_delete_availability_result(c, avail_id) IN
    /\ availability' =
          IF r = "AvailabilityDeleted"
          THEN SubSeq(availability, 1, avail_id - 1)
                 \o SubSeq(availability, avail_id + 1, Len(availability))
          ELSE availability
    /\ last' = Flash(r)
    /\ UNCHANGED <<session, doctor_blacklisted, patient_blacklisted,
                   appointments, today, pending, treatments,
                   patients, doctors>>

\* Treatment.query.filter_by(appointment_id=appt_id).first(): the place of
\* the appointment's first treatment row, 0 for None.
existing_treatment(rows, appt_id) ==
    LET found == {i \in DOMAIN rows : rows[i].appointment_id = appt_id}
    IN  IF found = {} THEN 0 ELSE CHOOSE i \in found : \A j \in found : i <= j

\* The path doctor_add_treatment (POST) takes on the stripped diagnosis.
doctor_add_treatment_result(c, appt_id, diagnosis) ==
    IF role_required(c, "doctor") # "" THEN role_required(c, "doctor")
    ELSE IF appt_id \notin DOMAIN appointments THEN "NotFound"
    ELSE IF appointments[appt_id].doctor_id # session[c].user_id THEN "NotAuthorized"
    ELSE IF diagnosis = <<>> THEN "DiagnosisRequired"
    ELSE "TreatmentSaved"

\* A save that always inserts a new record.
doctor_add_treatment_always_inserts(c, appt_id, diagnosis, prescription, notes) ==
    LET dg == Strip(diagnosis)
        r  == doctor_add_treatment_result(c, appt_id, dg)
    IN
    /\ treatments' =
          IF r = "TreatmentSaved"
          THEN Append(treatments,
                      [appointment_id |-> appt_id, diagnosis |-> dg,
                       prescription |-> Strip(prescription), notes |-> Strip(notes)])
          ELSE treatments
    /\ last' = Flash(r)
    /\ UNCHANGED <<session, doctor_blacklisted, patient_blacklisted,
                   availability, appointments, today, pending,
                   patients, doctors>>

\* doctor_add_treatment (POST)
doctor_add_treatment(c, appt_id, diagnosis, prescription, notes) ==
    LET dg == Strip(diagnosis)
        r  == doctor_add_treatment_result(c, appt_id, dg)
        e  == existing_treatment(treatments, appt_id)
    IN
    /\ treatments' =
          IF r # "TreatmentSaved" THEN treatments
          ELSE IF e # 0
          THEN [treatments EXCEPT ![e].diagnosis = dg,
                                  ![e].prescription = Strip(prescription),
                                  ![e].notes = Strip(notes)]
          ELSE Append(treatments,
                      [appointment_id |-> appt_id, diagnosis |-> dg,
                       prescription |-> Strip(prescription), notes |-> Strip(notes)])
    /\ last' = Flash(r)
    /\ UNCHANGED <<session, doctor_blacklisted, patient_blacklisted,
                   availability, appointments, today, pending,
                   patients, doctors>>

-----------------------------------------------------------------------------
(* Patient: book, reschedule, cancel                                       *)

\* The lookup without its filter: the first row of the table, whoever's.
first_availability_unfiltered(avail, doc) ==
    IF avail = <<>> THEN 0 ELSE 1

\* The lookup taking the doctor's latest row instead of the first.
last_availability(avail, doc) ==
    LET rows == {i \in DOMAIN avail : avail[i].doctor_id = doc}
    IN  IF rows = {} THEN 0 ELSE CHOOSE i \in rows : \A j \in rows : j <= i

\* DoctorAvailability.query.filter_by(doctor_id=doc).first(): the place of
\* the doctor's first row in rowid order, 0 for None.
first_availability(avail, doc) ==
    LET rows == {i \in DOMAIN avail : avail[i].doctor_id = doc}
    IN  IF rows = {} THEN 0 ELSE CHOOSE i \in rows : \A j \in rows : i <= j

\* Appointment.query.filter_by(doctor_id=doc_id, date=date, time=time).first()
\* finds a row; doc_id is the form field as posted, not int(doc_id).
slot_taken(appts, doc_id, date, time) ==
    \E i \in DOMAIN appts :
        /\ sqlite_integer_equals(appts[i].doctor_id, doc_id)
        /\ appts[i].date = date /\ appts[i].time = time

\* The patient's check counting Booked rows only.
patient_conflict_booked_only(appts, pat, date, time) ==
    \E i \in DOMAIN appts :
        /\ appts[i].patient_id = pat /\ appts[i].date = date /\ appts[i].time = time
        /\ appts[i].status = "Booked"

\* Appointment.query.filter_by(patient_id=pat_id, date=date, time=time).first()
\* finds a row.
patient_conflict(appts, pat, date, time) ==
    \E i \in DOMAIN appts :
        appts[i].patient_id = pat /\ appts[i].date = date /\ appts[i].time = time

\* The range taken as half-open: the last day is left out.
date_in_range_half_open(avail_start, booking_date, avail_end) ==
    avail_start <= booking_date /\ booking_date < avail_end

\* avail_start <= booking_date <= avail_end, on date objects.
date_in_range(avail_start, booking_date, avail_end) ==
    avail_start <= booking_date /\ booking_date <= avail_end

\* The window taken as half-open: the closing time is left out.
time_in_window_half_open(start_time, time, end_time) ==
    ~(StrLess(time, start_time) \/ ~StrLess(time, end_time))

\* not (time < avail.start_time or time > avail.end_time), on strings.
time_in_window(start_time, time, end_time) ==
    ~(StrLess(time, start_time) \/ StrLess(end_time, time))

\* The checks with the patient's check looking at the requested doctor's
\* rows only.
book_check_same_doctor_only(appts, avail, pat_id, doc_id, date, time) ==
    IF doc_id = <<>> \/ date = <<>> \/ time = <<>> THEN "DoctorDateTimeRequired"
    ELSE
        LET booking_date == ParseDate(date)
            a == first_availability(avail, IntOf(doc_id))
            avail_start == ParseDate(avail[a].start_date)
            avail_end == ParseDate(avail[a].end_date)
        IN
        IF booking_date = NoDate \/ ~IntOk(doc_id) THEN "MalformedInput"
        ELSE IF a = 0 THEN "NoAvailability"
        ELSE IF avail_start = NoDate \/ avail_end = NoDate THEN "MalformedInput"
        ELSE IF ~date_in_range(avail_start, booking_date, avail_end)
            THEN "DateOutOfRange"
        ELSE IF ~time_in_window(avail[a].start_time, time, avail[a].end_time)
            THEN "TimeOutOfRange"
        ELSE IF slot_taken(appts, doc_id, date, time) THEN "SlotTaken"
        ELSE IF \E i \in DOMAIN appts :
                   /\ appts[i].patient_id = pat_id /\ appts[i].doctor_id = IntOf(doc_id)
                   /\ appts[i].date = date /\ appts[i].time = time
            THEN "PatientConflict"
        ELSE "Booked"

\* The checks with the two conflict checks in the other order.
book_check_patient_first(appts, avail, pat_id, doc_id, date, time) ==
    IF doc_id = <<>> \/ date = <<>> \/ time = <<>> THEN "DoctorDateTimeRequired"
    ELSE
        LET booking_date == ParseDate(date)
            a == first_availability(avail, IntOf(doc_id))
            avail_start == ParseDate(avail[a].start_date)
            avail_end == ParseDate(avail[a].end_date)
        IN
        IF booking_date = NoDate \/ ~IntOk(doc_id) THEN "MalformedInput"
        ELSE IF a = 0 THEN "NoAvailability"
        ELSE IF avail_start = NoDate \/ avail_end = NoDate THEN "MalformedInput"
        ELSE IF ~date_in_range(avail_start, booking_date, avail_end)
            THEN "DateOutOfRange"
        ELSE IF ~time_in_window(avail[a].start_time, time, avail[a].end_time)
            THEN "TimeOutOfRange"
        ELSE IF patient_conflict(appts, pat_id, date, time) THEN "PatientConflict"
        ELSE IF slot_taken(appts, doc_id, date, time) THEN "SlotTaken"
        ELSE "Booked"

\* The checks of patient_book_appointment (POST) in the order of the code,
\* on the stripped date and time: the flash message, "Booked" when the
\* request passes them all.
book_check(appts, avail, pat_id, doc_id, date, time) ==
    IF doc_id = <<>> \/ date = <<>> \/ time = <<>> THEN "DoctorDateTimeRequired"
    ELSE
        LET booking_date == ParseDate(date)
            a == first_availability(avail, IntOf(doc_id))
            avail_start == ParseDate(avail[a].start_date)
            avail_end == ParseDate(avail[a].end_date)
        IN
        IF booking_date = NoDate \/ ~IntOk(doc_id) THEN "MalformedInput"
        ELSE IF a = 0 THEN "NoAvailability"
        ELSE IF avail_start = NoDate \/ avail_end = NoDate THEN "MalformedInput"
        ELSE IF ~date_in_range(avail_start, booking_date, avail_end)
            THEN "DateOutOfRange"
        ELSE IF ~time_in_window(avail[a].start_time, time, avail[a].end_time)
            THEN "TimeOutOfRange"
        ELSE IF slot_taken(appts, doc_id, date, time) THEN "SlotTaken"
        ELSE IF patient_conflict(appts, pat_id, date, time) THEN "PatientConflict"
        ELSE "Booked"

\* An insert under a unique constraint on (doctor_id, date, time): the row is
\* refused when the slot is held.
book_insert_unique(appts, pat_id, doc, date, time) ==
    IF \E i \in DOMAIN appts :
          appts[i].doctor_id = doc /\ appts[i].date = date /\ appts[i].time = time
    THEN appts
    ELSE Append(appts, [patient_id |-> pat_id, doctor_id |-> doc,
                        date |-> date, time |-> time, status |-> "Booked"])

\* Appointment(patient_id, doctor_id=int(doc_id), date, time, status='Booked')
\* added and committed.
book_insert(appts, pat_id, doc, date, time) ==
    Append(appts, [patient_id |-> pat_id, doctor_id |-> doc,
                   date |-> date, time |-> time, status |-> "Booked"])

\* The appointment table after the body of patient_book_appointment (POST)
\* has run for patient pat_id.
book_ledger(appts, avail, pat_id, doc_id, date, time) ==
    IF book_check(appts, avail, pat_id, doc_id, date, time) = "Booked"
    THEN book_insert(appts, pat_id, IntOf(doc_id), date, time)
    ELSE appts

\* The path patient_book_appointment (POST) takes for client c on the form
\* fields as posted.
patient_book_appointment_result(c, doc_id, date, time) ==
    IF role_required(c, "patient") # "" THEN role_required(c, "patient")
    ELSE book_check(appointments, availability, session[c].user_id, doc_id,
                    Strip(date), Strip(time))

\* patient_book_appointment (POST), the handler run as one step.
patient_book_appointment(c, doc_id, date, time) ==
    LET g == role_required(c, "patient")
        d == Strip(date)
        t == Strip(time)
    IN
    /\ pending[c] = NoRequest
    /\ appointments' =
          IF g # "" THEN appointments
          ELSE book_ledger(appointments, availability, session[c].user_id,
                           doc_id, d, t)
    /\ last' = Flash(patient_book_appointment_result(c, doc_id, date, time))
    /\ UNCHANGED <<session, doctor_blacklisted, patient_blacklisted,
                   availability, today, pending, treatments,
                   patients, doctors>>

\* patient_book_appointment (POST) up to the end of its checks: the reads of
\* the handler, before db.session.add.  A request that passes them all is
\* left in flight.
patient_book_check(c, doc_id, date, time) ==
    LET g == role_required(c, "patient")
        d == Strip(date)
        t == Strip(time)
        r == IF g # "" THEN g
             ELSE book_check(appointments, availability, session[c].user_id,
                             doc_id, d, t)
    IN
    /\ pending[c] = NoRequest
    /\ pending' = IF r = "Booked"
                  THEN [pending EXCEPT ![c] =
                          [patient_id |-> session[c].user_id,
                           doctor_id |-> IntOf(doc_id), date |-> d, time |-> t]]
                  ELSE pending
    /\ last' = IF r = "Booked" THEN last ELSE Flash(r)
    /\ UNCHANGED <<session, doctor_blacklisted, patient_blacklisted,
                   availability, appointments, today, treatments,
                   patients, doctors>>

\* patient_book_appointment (POST) from db.session.add on: the write of the
\* request in flight.
patient_book_commit(c) ==
    /\ pending[c] # NoRequest
    /\ appointments' = book_insert(appointments, pending[c].patient_id,
                                   pending[c].doctor_id, pending[c].date,
                                   pending[c].time)
    /\ pending' = [pending EXCEPT ![c] = NoRequest]
    /\ last' = Flash("Booked")
    /\ UNCHANGED <<session, doctor_blacklisted, patient_blacklisted,
                   availability, today, treatments, patients, doctors>>

\* A reschedule that also refuses a slot at which the patient holds an
\* appointment already.
patient_reschedule_appointment_result_patient_check(c, appt_id, new_date, new_time) ==
    IF role_required(c, "patient") # "" THEN role_required(c, "patient")
    ELSE IF appt_id \notin DOMAIN appointments THEN "NotFound"
    ELSE IF appointments[appt_id].patient_id # session[c].user_id THEN "NotAuthorized"
    ELSE IF new_date = <<>> \/ new_time = <<>> THEN "DateTimeRequired"
    ELSE IF \E i \in DOMAIN appointments :
               /\ appointments[i].doctor_id = appointments[appt_id].doctor_id
               /\ appointments[i].date = new_date
               /\ appointments[i].time = new_time
               /\ i # appt_id
        THEN "SlotAlreadyBooked"
    ELSE IF \E i \in DOMAIN appointments :
               /\ appointments[i].patient_id = session[c].user_id
               /\ appointments[i].date = new_date
               /\ appointments[i].time = new_time
               /\ i # appt_id
        THEN "PatientConflict"
    ELSE "Rescheduled"

\* The path patient_reschedule_appointment (POST) takes on the stripped
\* form fields.
patient_reschedule_appointment_result(c, appt_id, new_date, new_time) ==
    IF role_required(c, "patient") # "" THEN role_required(c, "patient")
    ELSE IF appt_id \notin DOMAIN appointments THEN "NotFound"
    ELSE IF appointments[appt_id].patient_id # session[c].user_id THEN "NotAuthorized"
    ELSE IF new_date = <<>> \/ new_time = <<>> THEN "DateTimeRequired"
    ELSE IF \E i \in DOMAIN appointments :
               /\ appointments[i].doctor_id = appointments[appt_id].doctor_id
               /\ appointments[i].date = new_date
               /\ appointments[i].time = new_time
               /\ i # appt_id
        THEN "SlotAlreadyBooked"
    ELSE "Rescheduled"

\* A reschedule that also books the appointment anew.
patient_reschedule_appointment_rebooks(c, appt_id, new_date, new_time) ==
    LET d == Strip(new_date)
        t == Strip(new_time)
        r == patient_reschedule_appointment_result(c, appt_id, d, t)
    IN
    /\ appointments' =
          IF r = "Rescheduled"
          THEN [appointments EXCEPT ![appt_id].date = d, ![appt_id].time = t,
                                    ![appt_id].status = "Booked"]
          ELSE appointments
    /\ last' = Flash(r)
    /\ UNCHANGED <<session, doctor_blacklisted, patient_blacklisted,
                   availability, today, pending, treatments,
                   patients, doctors>>

\* patient_reschedule_appointment (POST)
patient_reschedule_appointment(c, appt_id, new_date, new_time) ==
    LET d == Strip(new_date)
        t == Strip(new_time)
        r == patient_reschedule_appointment_result(c, appt_id, d, t)
    IN
    /\ appointments' =
          IF r = "Rescheduled"
          THEN [appointments EXCEPT ![appt_id].date = d, ![appt_id].time = t]
          ELSE appointments
    /\ last' = Flash(r)
    /\ UNCHANGED <<session, doctor_blacklisted, patient_blacklisted,
                   availability, today, pending, treatments,
                   patients, doctors>>

\* A cancellation open to any patient.
patient_cancel_appointment_result_any_patient(c, appt_id) ==
    IF role_required(c, "patient") # "" THEN role_required(c, "patient")
    ELSE IF appt_id \notin DOMAIN appointments THEN "NotFound"
    ELSE "AppointmentCancelled"

\* The path patient_cancel_appointment takes.
patient_cancel_appointment_result(c, appt_id) ==
    IF role_required(c, "patient") # "" THEN role_required(c, "patient")
    ELSE IF appt_id \notin DOMAIN appointments THEN "NotFound"
    ELSE IF appointments[appt_id].patient_id # session[c].user_id THEN "NotAuthorized"
    ELSE "AppointmentCancelled"

\* A cancellation that deletes the row instead of marking it.
patient_cancel_appointment_deletes(c, appt_id) ==
    LET r == patient_cancel_appointment_result(c, appt_id) IN
    /\ appointments' =
          IF r = "AppointmentCancelled"
          THEN SubSeq(appointments, 1, appt_id - 1)
                  \o SubSeq(appointments, appt_id + 1, Len(appointments))
          ELSE appointments
    /\ last' = Flash(r)
    /\ UNCHANGED <<session, doctor_blacklisted, patient_blacklisted,
                   availability, today, pending, treatments,
                   patients, doctors>>

\* patient_cancel_appointment (POST)
patient_cancel_appointment(c, appt_id) ==
    LET r == patient_cancel_appointment_result(c, appt_id) IN
    /\ appointments' =
          IF r = "AppointmentCancelled"
          THEN [appointments EXCEPT ![appt_id].status = "Cancelled"]
          ELSE appointments
    /\ last' = Flash(r)
    /\ UNCHANGED <<session, doctor_blacklisted, patient_blacklisted,
                   availability, today, pending, treatments,
                   patients, doctors>>

-----------------------------------------------------------------------------
(* Form values                                                             *)

Jun2024 == <<"2", "0", "2", "4", "-", "0", "6", "-">>

d0531 == <<"2", "0", "2", "4", "-", "0", "5", "-", "3", "1">>
d0601 == Jun2024 \o <<"0", "1">>
d0605 == Jun2024 \o <<"0", "5">>
d0607 == Jun2024 \o <<"0", "7">>
d0608 == Jun2024 \o <<"0", "8">>

t0859 == <<"0", "8", ":", "5", "9">>
t0900 == <<"0", "9", ":", "0", "0">>
t1000 == <<"1", "0", ":", "0", "0">>
t1700 == <<"1", "7", ":", "0", "0">>
t1701 == <<"1", "7", ":", "0", "1">>

\* Dates as strptime also reads them, without zero padding.
d0605_unpadded == <<"2", "0", "2", "4", "-", "6", "-", "5">>

d0608_unpadded == <<"2", "0", "2", "4", "-", "6", "-", "8">>

\* Every user logged in from a browser of their own.
AllLoggedIn ==
    [c \in 1..5 |->
        CASE c = 1 -> [role |-> "admin", user_id |-> 0]
          [] c = 2 -> [role |-> "doctor", user_id |-> 1]
          [] c = 3 -> [role |-> "doctor", user_id |-> 2]
          [] c = 4 -> [role |-> "patient", user_id |-> 1]
          [] c = 5 -> [role |-> "patient", user_id |-> 2]]

-----------------------------------------------------------------------------
(* The ledger: book, reschedule, cancel and status updates, each handler   *)
(* run as one step.                                                        *)

MaxAppts == 2

\* The window of the scenario: 2024-06-01 to 2024-06-07, 09:00 to 17:00.
Window(doc) == [doctor_id |-> doc, start_date |-> d0601, end_date |-> d0607,
                start_time |-> t0900, end_time |-> t1700]

AdminClients == {c \in Clients : AllLoggedIn[c].role = "admin"}

DoctorClients == {c \in Clients : AllLoggedIn[c].role = "doctor"}

PatientClients == {c \in Clients : AllLoggedIn[c].role = "patient"}

\* The doctor_id field as the form's select posts it, and the numeral "0_1"
\* that int() also reads as doctor 1.
DoctorIdFields == {<<"1">>, <<"2">>, <<"0", "_", "1">>}

LedgerDates == {d0605}

LedgerTimes == {t1000, t1700}

\* On 2024-06-01, after every user has logged in from a browser of their own
\* and both doctors have registered the window.
Init ==
    /\ session = AllLoggedIn
    /\ doctor_blacklisted = [d \in DoctorIds |-> FALSE]
    /\ patient_blacklisted = [p \in PatientIds |-> FALSE]
    /\ availability = <<Window(1), Window(2)>>
    /\ appointments = <<>>
    /\ today = Ordinal(2024, 6, 1)
    /\ pending = [c \in Clients |-> NoRequest]
    /\ last = Flash("")
    /\ treatments = <<>>
    /\ patients = SeededPatients
    /\ doctors = SeededDoctors

Next ==
    \/ \E c \in PatientClients, doc_id \in DoctorIdFields,
          date \in LedgerDates, time \in LedgerTimes :
          /\ patient_book_appointment(c, doc_id, date, time)
          /\ Len(appointments') <= MaxAppts
    \/ \E c \in PatientClients, a \in 1..MaxAppts,
          date \in LedgerDates, time \in LedgerTimes :
          patient_reschedule_appointment(c, a, date, time)
    \/ \E c \in PatientClients, a \in 1..MaxAppts :
          patient_cancel_appointment(c, a)
    \/ \E c \in AdminClients, a \in 1..MaxAppts, st \in Statuses :
          admin_update_appointment_status(c, a, st)
    \/ \E c \in DoctorClients, a \in 1..MaxAppts, st \in Statuses :
          doctor_update_appointment_status(c, a, st)

Spec == Init /\ [][Next]_vars

-----------------------------------------------------------------------------
(* Concurrent bookings: the handler's reads and its write are two steps,   *)
(* and the requests of different clients interleave.                       *)

PlainDoctorIdFields == {<<"1">>, <<"2">>}

NextRace ==
    \/ \E c \in PatientClients, doc_id \in PlainDoctorIdFields,
          date \in LedgerDates, time \in LedgerTimes :
          patient_book_check(c, doc_id, date, time)
    \/ \E c \in PatientClients :
          /\ patient_book_commit(c)
          /\ Len(appointments') <= MaxAppts
    \/ \E c \in PatientClients, a \in 1..MaxAppts :
          patient_cancel_appointment(c, a)

SpecRace == Init /\ [][NextRace]_vars

-----------------------------------------------------------------------------
(* The blacklist: the admin blocks and unblocks doctors while patients     *)
(* book.                                                                   *)

NextBlacklist ==
    \/ \E c \in AdminClients, d \in DoctorIds :
          admin_toggle_doctor_blacklist(c, d)
    \/ \E c \in PatientClients, doc_id \in PlainDoctorIdFields,
          date \in LedgerDates, time \in LedgerTimes :
          /\ patient_book_appointment(c, doc_id, date, time)
          /\ Len(appointments') <= MaxAppts

SpecBlacklist == Init /\ [][NextBlacklist]_vars

-----------------------------------------------------------------------------
(* Patients log in and out and book while the admin blocks and unblocks    *)
(* them.                                                                   *)

\* The admin is logged in; the patients' browsers hold no session yet.
InitLogin ==
    /\ session = [c \in Clients |-> IF c \in AdminClients THEN AllLoggedIn[c]
                                    ELSE NoSession]
    /\ doctor_blacklisted = [d \in DoctorIds |-> FALSE]
    /\ patient_blacklisted = [p \in PatientIds |-> FALSE]
    /\ availability = <<Window(1), Window(2)>>
    /\ appointments = <<>>
    /\ today = Ordinal(2024, 6, 1)
    /\ pending = [c \in Clients |-> NoRequest]
    /\ last = Flash("")
    /\ treatments = <<>>
    /\ patients = SeededPatients
    /\ doctors = SeededDoctors

LoginPasswords == {PatientPassword, <<"l", "e", "t", "m", "e", "i", "n">>}

NextLogin ==
    \/ \E c \in PatientClients, p \in PatientIds, password \in LoginPasswords :
          login(c, "patient", PatientEmail[p], password)
    \/ \E c \in PatientClients : logout(c)
    \/ \E c \in AdminClients, p \in PatientIds :
          admin_toggle_patient_blacklist(c, p)
    \/ \E c \in PatientClients, time \in LedgerTimes :
          /\ patient_book_appointment(c, <<"1">>, d0605, time)
          /\ Len(appointments') <= MaxAppts

SpecLogin == InitLogin /\ [][NextLogin]_vars

-----------------------------------------------------------------------------
(* The booking validator against the registry: windows come and go,        *)
(* requests range over the boundaries of the window.                       *)

MaxBooked == 1

MaxAvail == 1

BookDates == {d0531, d0601, d0607, d0608}

BookTimes == {t0859, t0900, t1700, t1701}

\* The dates at the window's first hour and the times on its first day.
BookSlots == {<<d, t0900>> : d \in BookDates} \cup {<<d0601, t>> : t \in BookTimes}

InitBook ==
    /\ session = AllLoggedIn
    /\ doctor_blacklisted = [d \in DoctorIds |-> FALSE]
    /\ patient_blacklisted = [p \in PatientIds |-> FALSE]
    /\ availability = <<>>
    /\ appointments = <<>>
    /\ today = Ordinal(2024, 6, 1)
    /\ pending = [c \in Clients |-> NoRequest]
    /\ last = Flash("")
    /\ treatments = <<>>
    /\ patients = SeededPatients
    /\ doctors = SeededDoctors

NextBook ==
    \/ \E c \in DoctorClients :
          /\ doctor_add_availability(c, d0601, d0607, t0900, t1700)
          /\ Len(availability') <= MaxAvail
    \/ \E c \in DoctorClients, a \in 1..MaxAvail :
          doctor_delete_availability(c, a)
    \/ \E c \in PatientClients, doc_id \in DoctorIdFields, slot \in BookSlots :
          /\ patient_book_appointment(c, doc_id, slot[1], slot[2])
          /\ Len(appointments') <= MaxBooked

SpecBook == InitBook /\ [][NextBook]_vars

-----------------------------------------------------------------------------
(* The availability registry: doctors add and delete windows as the days   *)
(* pass.                                                                   *)

MaxWindows == 2

MaxDaysElapsed == 1

d0609 == Jun2024 \o <<"0", "9">>

t0900_unpadded == <<"9", ":", "0", "0">>

\* The forms the doctor posts: <<start_date, end_date, start_time, end_time>>
\* at and around the limits of each check.
AvailRequests ==
    { <<d0601, d0608, t0900, t1700>>,
      <<d0531, d0605, t0900, t1700>>,
      <<d0601, d0609, t0900, t1700>>,
      <<d0605, d0609, t0900, t1700>>,
      <<d0605, d0601, t0900, t1700>>,
      <<d0605, d0605, t0900, t0900>>,
      <<d0605, d0605, t1700, t0900>>,
      <<d0605, d0608, t0900_unpadded, t1700>> }

\* datetime.utcnow().date() moves on to the next day.
next_day ==
    /\ today' = today + 1
    /\ UNCHANGED <<session, doctor_blacklisted, patient_blacklisted,
                   availability, appointments, pending, last, treatments,
                   patients, doctors>>

NextAvail ==
    \/ \E c \in DoctorClients, f \in AvailRequests :
          /\ doctor_add_availability(c, f[1], f[2], f[3], f[4])
          /\ Len(availability') <= MaxWindows
    \/ \E c \in DoctorClients, a \in 1..MaxWindows :
          doctor_delete_availability(c, a)
    \/ /\ today < Ordinal(2024, 6, 1) + MaxDaysElapsed
       /\ next_day

SpecAvail == InitBook /\ [][NextAvail]_vars

-----------------------------------------------------------------------------
(* Several windows per doctor: an early-morning week start and a later     *)
(* window, registered in either order, and bookings inside one or both.    *)

\* The forms of the two windows: they share the day 06-05 and the time 10:00.
TwoWindows == { <<d0601, d0605, t0900, t1000>>, <<d0605, d0608, t1000, t1700>> }

\* Requests inside the first window only, inside both, inside the second
\* only by time, and inside the second only by date.
WindowSlots == { <<d0601, t0900>>, <<d0605, t1000>>, <<d0605, t1700>>, <<d0607, t1700>> }

NextWindows ==
    \/ \E c \in DoctorClients, f \in TwoWindows :
          /\ doctor_add_availability(c, f[1], f[2], f[3], f[4])
          /\ Len(availability') <= MaxWindows
    \/ \E c \in DoctorClients, a \in 1..MaxWindows :
          doctor_delete_availability(c, a)
    \/ \E c \in PatientClients, slot \in WindowSlots :
          /\ patient_book_appointment(c, <<"1">>, slot[1], slot[2])
          /\ Len(appointments') <= MaxBooked

SpecWindows == InitBook /\ [][NextWindows]_vars

-----------------------------------------------------------------------------
(* Rescheduling: patients book inside the window and move their            *)
(* appointments to slots inside and outside it.                            *)

\* The slots of the ledger, a day after the window and a minute after it.
ReschedSlots == { <<d0605, t1000>>, <<d0605, t1700>>, <<d0608, t1000>>, <<d0605, t1701>> }

NextResched ==
    \/ \E c \in PatientClients, doc_id \in PlainDoctorIdFields,
          date \in LedgerDates, time \in LedgerTimes :
          /\ patient_book_appointment(c, doc_id, date, time)
          /\ Len(appointments') <= MaxAppts
    \/ \E c \in PatientClients, a \in 1..MaxAppts, slot \in ReschedSlots :
          patient_reschedule_appointment(c, a, slot[1], slot[2])

SpecResched == Init /\ [][NextResched]_vars

-----------------------------------------------------------------------------
(* Treatment records: a patient books, the doctors save diagnoses.         *)

\* The forms the doctor posts: <<diagnosis, prescription, notes>>; a blank
\* diagnosis, and two different records, one with blanks around its fields.
TreatForms ==
    { << <<" ">>, <<"r", "x">>, <<>> >>,
      << <<"f", "l", "u">>, <<"r", "x">>, <<>> >>,
      << <<" ", "c", "o", "l", "d">>, <<>>, <<"r", "e", "s", "t", " ">> >> }

NextTreat ==
    \/ \E doc_id \in PlainDoctorIdFields, time \in LedgerTimes :
          /\ patient_book_appointment(4, doc_id, d0605, time)
          /\ Len(appointments') <= MaxAppts
    \/ \E c \in DoctorClients, a \in 1..MaxAppts, f \in TreatForms :
          doctor_add_treatment(c, a, f[1], f[2], f[3])

SpecTreat == Init /\ [][NextTreat]_vars

-----------------------------------------------------------------------------
(* The clinic: every handler that reads or writes the ledger, the registry *)
(* or the treatment records, with well-formed and malformed form fields.   *)

t10 == <<"1", "0">>

d2024_06 == <<"2", "0", "2", "4", "-", "0", "6">>

\* The booking forms: a slot of the window, the same hour truncated and
\* unpadded, the same day unpadded, a truncated date, the day after the
\* window, a blank time.
ClinicSlots ==
    { <<d0605, t1000>>, <<d0605, t10>>, <<d0605, t0900_unpadded>>,
      <<d0605_unpadded, t1000>>, <<d2024_06, t1000>>, <<d0608, t1000>>,
      <<d0605, <<" ">>>> }

\* The availability forms: the window of the scenario, a range that ends
\* before it starts, a form without its end time.
ClinicWindows ==
    { <<d0601, d0607, t0900, t1700>>, <<d0605, d0601, t0900, t1700>>,
      <<d0601, d0607, t0900, <<>>>> }

NextClinic ==
    \/ \E slot \in ClinicSlots :
          /\ patient_book_appointment(4, <<"1">>, slot[1], slot[2])
          /\ Len(appointments') <= MaxBooked
    \/ \E c \in PatientClients, a \in 1..MaxBooked, time \in {t1000, <<>>} :
          patient_reschedule_appointment(c, a, d0608, time)
    \/ \E c \in PatientClients, a \in 1..MaxBooked :
          patient_cancel_appointment(c, a)
    \/ \E c \in AdminClients, a \in 1..MaxBooked, st \in {"Completed", "Done"} :
          admin_update_appointment_status(c, a, st)
    \/ \E c \in DoctorClients, a \in 1..MaxBooked, st \in {"Cancelled", "Done"} :
          doctor_update_appointment_status(c, a, st)
    \/ \E c \in DoctorClients, a \in 1..MaxBooked :
          doctor_add_treatment(c, a, <<"f", "l", "u">>, <<>>, <<>>)
    \/ \E f \in ClinicWindows :
          /\ doctor_add_availability(2, f[1], f[2], f[3], f[4])
          /\ Len(availability') <= MaxAvail
    \/ \E c \in DoctorClients, a \in 1..MaxAvail :
          doctor_delete_availability(c, a)

SpecClinic == InitBook /\ [][NextClinic]_vars

-----------------------------------------------------------------------------
(* Times of day: doctor 1 has a window between any two clock times, and    *)
(* patient 1 asks for any clock time in it or around it.                   *)

Two(n) == <<Digits[(n \div 10) + 1], Digits[(n % 10) + 1]>>

\* Zero-padded HH:MM times around the clock.
PaddedTimes ==
    {Two(h) \o <<":">> \o Two(m) :
        h \in {0, 8, 9, 10, 16, 17, 18, 23}, m \in {0, 1, 59}}

\* Zero-padded HH:MM times whose hours and minutes differ in the first
\* digit, in the second, or in both.
ClockTimes ==
    {Two(h) \o <<":">> \o Two(m) : h \in {2, 9, 10, 20}, m \in {0, 9, 10}}

\* Doctor 1 has registered a window on 2024-06-01, as add_availability
\* accepts it: the end time after the start time.
InitTimes ==
    /\ session = AllLoggedIn
    /\ doctor_blacklisted = [d \in DoctorIds |-> FALSE]
    /\ patient_blacklisted = [p \in PatientIds |-> FALSE]
    /\ \E st \in ClockTimes, et \in ClockTimes :
          /\ ParseTime(st) < ParseTime(et)
          /\ availability = << [doctor_id |-> 1, start_date |-> d0601,
                                end_date |-> d0607, start_time |-> st,
                                end_time |-> et] >>
    /\ appointments = <<>>
    /\ today = Ordinal(2024, 6, 1)
    /\ pending = [c \in Clients |-> NoRequest]
    /\ last = Flash("")
    /\ treatments = <<>>
    /\ patients = SeededPatients
    /\ doctors = SeededDoctors

NextTimes ==
    \E time \in ClockTimes :
        /\ patient_book_appointment(4, <<"1">>, d0605, time)
        /\ Len(appointments') <= MaxBooked

SpecTimes == InitTimes /\ [][NextTimes]_vars

-----------------------------------------------------------------------------
(* A patient's own appointments: patients book, cancel and reschedule.     *)

NextConflict ==
    \/ \E c \in PatientClients, doc_id \in DoctorIdFields, time \in LedgerTimes :
          /\ patient_book_appointment(c, doc_id, d0605, time)
          /\ Len(appointments') <= MaxAppts
    \/ \E c \in PatientClients, a \in 1..MaxAppts :
          patient_cancel_appointment(c, a)
    \/ \E c \in PatientClients, a \in 1..MaxAppts, time \in LedgerTimes :
          patient_reschedule_appointment(c, a, d0605, time)

SpecConflict == Init /\ [][NextConflict]_vars

-----------------------------------------------------------------------------
(* Owners and strangers: every doctor and patient acts on every            *)
(* appointment and window, their own or not.                               *)

flu == <<"f", "l", "u">>

NextOwner ==
    \/ \E c \in PatientClients, doc_id \in PlainDoctorIdFields :
          /\ patient_book_appointment(c, doc_id, d0605, t1000)
          /\ Len(appointments') <= MaxBooked
    \/ \E c \in PatientClients, a \in 1..MaxBooked :
          patient_reschedule_appointment(c, a, d0605, t1700)
    \/ \E c \in PatientClients, a \in 1..MaxBooked :
          patient_cancel_appointment(c, a)
    \/ \E c \in DoctorClients, a \in 1..MaxBooked :
          doctor_update_appointment_status(c, a, "Completed")
    \/ \E c \in DoctorClients, a \in 1..MaxBooked :
          doctor_add_treatment(c, a, flu, <<>>, <<>>)
    \/ \E c \in DoctorClients, a \in 1..MaxWindows :
          doctor_delete_availability(c, a)

SpecOwner == Init /\ [][NextOwner]_vars

-----------------------------------------------------------------------------
(* Registration: on a fresh deployment visitors register as patients, the  *)
(* admin logs in and registers doctors, and the new patients log in.       *)

MaxUsers == 4

ana == <<"a", "n", "a", "@", "x">>

bob == <<"b", "o", "b", "@", "x">>

secret == <<"p", "w">>

\* The registration forms, <<name, email, password>>: two new emails, one
\* of them also with blanks around it, an email of a seeded patient, one of
\* a seeded doctor, and a form without its name.
RegForms ==
    { <<ana, ana, secret>>, <<ana, <<" ">> \o ana \o <<" ">>, secret>>,
      <<bob, bob, secret>>, <<ana, john_patient, secret>>,
      <<ana, john_hospital, secret>>, <<<<" ">>, bob, secret>> }

NextRegister ==
    \/ \E f \in RegForms :
          /\ register_patient(4, f[1], f[2], f[3])
          /\ Len(patients') <= MaxUsers
    \/ \E f \in RegForms :
          /\ register_doctor(1, f[1], f[2], f[3])
          /\ Len(doctors') <= MaxUsers
    \/ login(1, "admin", AdminUsername, AdminPassword)
    \/ \E email \in {ana, bob}, password \in {secret, PatientPassword} :
          login(5, "patient", email, password)
    \/ \E c \in {1, 5} : logout(c)

SpecRegister == Fresh /\ [][NextRegister]_vars

-----------------------------------------------------------------------------
(* Roles: one browser logs in and out as admin, doctor and patient, with   *)
(* right and wrong passwords, and requests every kind of operation         *)
(* whatever its session.                                                   *)

\* The login forms: <<role, identifier, password>>.
LoginForms ==
    { <<"admin", AdminUsername, AdminPassword>>,
      <<"admin", AdminUsername, DoctorPassword>>,
      <<"doctor", john_hospital, DoctorPassword>>,
      <<"doctor", john_hospital, PatientPassword>>,
      <<"patient", john_patient, PatientPassword>>,
      <<"patient", john_hospital, PatientPassword>>,
      <<"nurse", john_patient, PatientPassword>> }

NextRoles ==
    \/ \E f \in LoginForms : login(1, f[1], f[2], f[3])
    \/ logout(1)
    \/ /\ register_doctor(1, ana, ana, secret)
       /\ Len(doctors') <= MaxUsers
    \/ admin_toggle_patient_blacklist(1, 2)
    \/ admin_update_appointment_status(1, 1, "Completed")
    \/ /\ doctor_add_availability(1, d0601, d0607, t0900, t1700)
       /\ Len(availability') <= MaxAvail
    \/ doctor_delete_availability(1, 1)
    \/ doctor_update_appointment_status(1, 1, "Cancelled")
    \/ doctor_add_treatment(1, 1, flu, <<>>, <<>>)
    \/ /\ patient_book_appointment(1, <<"1">>, d0605, t1000)
       /\ Len(appointments') <= MaxBooked
    \/ patient_reschedule_appointment(1, 1, d0605, t1700)
    \/ patient_cancel_appointment(1, 1)

SpecRoles == Fresh /\ [][NextRoles]_vars

-----------------------------------------------------------------------------
(* Properties of the ledger                                                *)

\* The slot of an appointment row: the stored (doctor_id, date, time).
SlotOf(a) == <<a.doctor_id, a.date, a.time>>

NoTwoLiveOnOneSlot(appts) ==
    \A i, j \in DOMAIN appts :
        (i # j /\ appts[i].status # "Cancelled" /\ appts[j].status # "Cancelled")
            => SlotOf(appts[i]) # SlotOf(appts[j])

\* C1: with every handler run as one step, after any sequence of book,
\* reschedule, cancel and status-update requests no two appointments whose
\* status is not Cancelled have the same stored (doctor_id, date, time), and
\* the row an accepted booking inserts has a (doctor_id, date, time) that no
\* row of the table had, whatever its status.
C1_NoDoubleBooking ==
    [][ /\ NoTwoLiveOnOneSlot(appointments')
        /\ Len(appointments') > Len(appointments) =>
              \A i \in DOMAIN appointments :
                  SlotOf(appointments[i]) # SlotOf(appointments'[Len(appointments')])
      ]_vars

\* C2: after any sequence of book, reschedule, cancel and status-update
\* requests no patient holds two appointments at the same (date, time),
\* whatever the doctors.
C2_NoPatientOverlap ==
    \A i, j \in DOMAIN appointments :
        (i # j /\ appointments[i].patient_id = appointments[j].patient_id)
            => <<appointments[i].date, appointments[i].time>>
                 # <<appointments[j].date, appointments[j].time>>

-----------------------------------------------------------------------------
(* Properties of concurrent bookings                                       *)

BookedRow(r) == [patient_id |-> r.patient_id, doctor_id |-> r.doctor_id,
                 date |-> r.date, time |-> r.time, status |-> "Booked"]

\* C3: with a booking run as two steps, the conflict check and then the
\* insert, the insert of a request that passed the check adds its Booked
\* row whatever was inserted since the check; so when two requests by
\* different patients for one (doctor, date, time) have both passed the
\* check before either inserts, both rows are inserted (C3_Witness is the
\* state this reaches).
C3_InsertAfterCheckAlwaysAdds ==
    [][ \A c \in Clients :
           (pending[c] # NoRequest /\ pending'[c] = NoRequest)
               => appointments' = Append(appointments, BookedRow(pending[c]))
      ]_vars

\* C3 witness: two Booked appointments of different patients on the same
\* (doctor, date, time).
C3_Witness ==
    \E i, j \in DOMAIN appointments :
        /\ i # j
        /\ appointments[i].patient_id # appointments[j].patient_id
        /\ SlotOf(appointments[i]) = SlotOf(appointments[j])
        /\ appointments[i].status = "Booked"
        /\ appointments[j].status = "Booked"

-----------------------------------------------------------------------------
(* Properties of the booking validator                                     *)

\* The (date, time) of the requests C4 ranges over: the slots at the
\* window's boundaries, dates strptime reads without zero padding, and times
\* that are not HH:MM at all (the handler compares the text as it is).
RequestSlots ==
    BookSlots \cup {<<d0605_unpadded, t1000>>, <<d0608_unpadded, <<"1", "0">>>>,
                    <<d0605, <<"9", ":", "0", "0">>>>}

\* The doctor has no row in the availability table.
NoWindow(doc) == \A i \in DOMAIN availability : availability[i].doctor_id # doc

\* C4: for every doctor with no registered availability window, every
\* booking request naming that doctor, on any date, at any time, by any
\* patient, gets the NoAvailability message and leaves the appointment table
\* as it was.
C4_NoWindowNoBooking ==
    \A pat \in PatientIds, doc_id \in DoctorIdFields, slot \in RequestSlots :
        NoWindow(IntOf(doc_id)) =>
            /\ book_check(appointments, availability, pat, doc_id,
                          slot[1], slot[2]) = "NoAvailability"
            /\ book_ledger(appointments, availability, pat, doc_id,
                           slot[1], slot[2]) = appointments

\* C4 witness: one doctor has a window and an appointment, the other has no
\* window, and a request has just been refused with NoAvailability.
C4_Witness ==
    /\ Len(availability) = 1
    /\ Len(appointments) = 1
    /\ \E d \in DoctorIds : NoWindow(d)
    /\ last = "NoAvailability"

\* Well-formed requests: the doctor's id as a plain numeral, a zero-padded
\* YYYY-MM-DD date, a zero-padded HH:MM time.
WellFormedSlots == BookSlots \cup {<<d0605, t1000>>}

\* The window the validator consults: the doctor's first row.
ConsultedWindow(doc) ==
    availability[CHOOSE i \in DOMAIN availability :
                    /\ availability[i].doctor_id = doc
                    /\ \A j \in 1..(i - 1) : availability[j].doctor_id # doc]

\* The five checks of a well-formed request, each stated on its own: dates
\* in calendar order, times in clock order, conflicts on rows of any status.
FailsNoAvailability(doc) == NoWindow(doc)

FailsDateOutOfRange(doc, date) ==
    LET w == ConsultedWindow(doc)
        day == ParseDate(date)
    IN  day < ParseDate(w.start_date) \/ day > ParseDate(w.end_date)

FailsTimeOutOfRange(doc, time) ==
    LET w == ConsultedWindow(doc)
        minute == ParseTime(time)
    IN  minute < ParseTime(w.start_time) \/ minute > ParseTime(w.end_time)

FailsSlotTaken(doc, date, time) ==
    \E i \in DOMAIN appointments : SlotOf(appointments[i]) = <<doc, date, time>>

FailsPatientConflict(pat, date, time) ==
    \E i \in DOMAIN appointments :
        /\ appointments[i].patient_id = pat
        /\ appointments[i].date = date /\ appointments[i].time = time

\* The first check that fails, in the order of the validator.
FirstFailingCheck(pat, doc, date, time) ==
    IF FailsNoAvailability(doc) THEN "NoAvailability"
    ELSE IF FailsDateOutOfRange(doc, date) THEN "DateOutOfRange"
    ELSE IF FailsTimeOutOfRange(doc, time) THEN "TimeOutOfRange"
    ELSE IF FailsSlotTaken(doc, date, time) THEN "SlotTaken"
    ELSE IF FailsPatientConflict(pat, date, time) THEN "PatientConflict"
    ELSE "Booked"

\* C5: for a well-formed booking request the message is that of the first
\* check that fails in the order NoAvailability, DateOutOfRange,
\* TimeOutOfRange, SlotTaken, PatientConflict; when one fails the appointment
\* table is unchanged, and when none fails the request is accepted and the
\* table gains exactly one row, the request's, with status Booked.
C5_FirstFailingCheckDecides ==
    \A pat \in PatientIds, doc \in DoctorIds, slot \in WellFormedSlots :
        LET doc_id == <<Digits[doc + 1]>>
            date == slot[1]
            time == slot[2]
            out == book_check(appointments, availability, pat, doc_id, date, time)
            after == book_ledger(appointments, availability, pat, doc_id, date, time)
            first == FirstFailingCheck(pat, doc, date, time)
        IN
        /\ out = first
        /\ after = IF first = "Booked"
                   THEN Append(appointments,
                               [patient_id |-> pat, doctor_id |-> doc,
                                date |-> date, time |-> time, status |-> "Booked"])
                   ELSE appointments

\* C5 witness: a request for a slot that is both taken for the doctor and
\* held by the requesting patient could be made, and a request has just been
\* refused with SlotTaken.
C5_Witness ==
    /\ last = "SlotTaken"
    /\ \E i \in DOMAIN appointments :
          /\ ~NoWindow(appointments[i].doctor_id)
          /\ FailsSlotTaken(appointments[i].doctor_id, appointments[i].date,
                            appointments[i].time)
          /\ FailsPatientConflict(appointments[i].patient_id, appointments[i].date,
                                  appointments[i].time)

\* The messages of a request that got past the date check.
PastDateCheck == {"TimeOutOfRange", "SlotTaken", "PatientConflict", "Booked"}

\* The messages of a request that got past the time check.
PastTimeCheck == {"SlotTaken", "PatientConflict", "Booked"}

\* The dates C6 ranges over: the window's first and last day and the days
\* next to them, zero-padded and not.
BoundaryDates == BookDates \cup {d0605, d0608_unpadded}

\* C6: the date check of a booking request is inclusive at both ends of the
\* consulted window: a request dated start_date or end_date gets past the
\* date check, and a request dated one day before start_date or one day
\* after end_date gets the DateOutOfRange message.
C6_DateCheckInclusive ==
    \A pat \in PatientIds, doc \in DoctorIds,
       date \in BoundaryDates, time \in {t0900, t0859} :
        ~NoWindow(doc) =>
            LET w == ConsultedWindow(doc)
                day == ParseDate(date)
                out == book_check(appointments, availability, pat,
                                  <<Digits[doc + 1]>>, date, time)
            IN
            /\ day \in {ParseDate(w.start_date), ParseDate(w.end_date)}
                  => out \in PastDateCheck
            /\ day \in {ParseDate(w.start_date) - 1, ParseDate(w.end_date) + 1}
                  => out = "DateOutOfRange"

\* C6 witness: a booking on the last day of the window was accepted, and a
\* request has just been refused with DateOutOfRange.
C6_Witness ==
    /\ last = "DateOutOfRange"
    /\ \E i \in DOMAIN appointments :
          /\ ~NoWindow(appointments[i].doctor_id)
          /\ appointments[i].date = ConsultedWindow(appointments[i].doctor_id).end_date

\* C7: the time check of a booking request is inclusive at both ends of the
\* consulted window: on a date inside the window, a request at start_time or
\* at end_time gets past the time check, and a request at a zero-padded
\* HH:MM time that is lexicographically below start_time or above end_time
\* gets the TimeOutOfRange message.
C7_TimeCheckInclusive ==
    \A pat \in PatientIds, doc \in DoctorIds, time \in PaddedTimes :
        ~NoWindow(doc) =>
            LET w == ConsultedWindow(doc)
                out == book_check(appointments, availability, pat,
                                  <<Digits[doc + 1]>>, w.start_date, time)
            IN
            /\ time \in {w.start_time, w.end_time} => out \in PastTimeCheck
            /\ (StrLess(time, w.start_time) \/ StrLess(w.end_time, time))
                  => out = "TimeOutOfRange"

\* C7 witness: a booking at the closing time of the window was accepted, and
\* a request has just been refused with TimeOutOfRange.
C7_Witness ==
    /\ last = "TimeOutOfRange"
    /\ \E i \in DOMAIN appointments :
          /\ ~NoWindow(appointments[i].doctor_id)
          /\ appointments[i].time = ConsultedWindow(appointments[i].doctor_id).end_time

-----------------------------------------------------------------------------
(* Properties of cancelled and completed appointments                      *)

\* C8: once an appointment at (doctor, date, time) is cancelled the slot
\* stays blocked: whatever request is handled next, afterwards every booking
\* request for that doctor, date and time, by any patient, is still
\* rejected.
C8_CancelledSlotStaysBlocked ==
    [][ \A i \in DOMAIN appointments :
           appointments[i].status = "Cancelled" =>
               \A pat \in PatientIds, doc_id \in DoctorIdFields :
                   IntOf(doc_id) = appointments[i].doctor_id =>
                       book_check(appointments', availability', pat, doc_id,
                                  appointments[i].date, appointments[i].time)
                           # "Booked"
      ]_vars

Final == {"Completed", "Cancelled"}

-----------------------------------------------------------------------------
(* Properties of the blacklist                                             *)

\* C10: no appointment is created for a doctor whose blacklist flag is set
\* when the booking request is handled.
C10_NoBookingOfBlacklistedDoctor ==
    [][ Len(appointments') > Len(appointments)
          => ~doctor_blacklisted[appointments'[Len(appointments')].doctor_id]
      ]_vars

-----------------------------------------------------------------------------
(* Properties of the patient blacklist                                     *)

\* The session of client c is that of a patient whose blacklist flag is set.
BlacklistedPatientSession(c) ==
    /\ session[c].role = "patient"
    /\ patient_blacklisted[session[c].user_id]

\* C11: a blacklisted patient is blocked at login and not at booking: no
\* login gives a client the session of a patient whose blacklist flag is set,
\* whatever the password, while in a session opened before the flag was set
\* a booking request for a free slot inside the doctor's window is still
\* accepted.
C11_BlockedAtLoginNotAtBooking ==
    /\ [][ \A c \in Clients :
             (session'[c] # session[c] /\ session'[c].role = "patient")
                 => ~patient_blacklisted[session'[c].user_id]
         ]_vars
    /\ [](\A c \in PatientClients, time \in LedgerTimes :
             (/\ BlacklistedPatientSession(c)
              /\ ~FailsSlotTaken(1, d0605, time)
              /\ ~FailsPatientConflict(session[c].user_id, d0605, time))
                 => patient_book_appointment_result(c, <<"1">>, d0605, time)
                      = "Booked")

\* C11 witness: a patient whose blacklist flag is set holds an appointment
\* booked in a session that is still open, and a login has just been refused
\* because the account is blocked.
C11_Witness ==
    /\ last = "AccountBlocked"
    /\ \E c \in PatientClients :
          /\ BlacklistedPatientSession(c)
          /\ \E i \in DOMAIN appointments :
                appointments[i].patient_id = session[c].user_id

-----------------------------------------------------------------------------
(* Properties of the availability registry                                 *)

\* The window a step has just appended to the registry.
NewWindow == availability'[Len(availability')]

\* C12: add_availability gives StartInPast when start_date is before the
\* current date and, the start not being in the past, RangeTooFar when
\* end_date is after the current date plus 7 days; so every window it
\* registers has today <= start_date and end_date <= today + 7 on the day of
\* the registration, and a window from today to today + 7 is accepted.
C12_WindowWithinSevenDays ==
    /\ [][ Len(availability') > Len(availability) =>
             /\ today <= ParseDate(NewWindow.start_date)
             /\ ParseDate(NewWindow.end_date) <= today + 7
         ]_vars
    /\ [](\A c \in DoctorClients, f \in AvailRequests :
             LET r == doctor_add_availability_result(c, f[1], f[2], f[3], f[4])
                 start == ParseDate(f[1])
                 end == ParseDate(f[2])
             IN
             /\ start < today => r = "StartInPast"
             /\ (start >= today /\ end > today + 7) => r = "RangeTooFar"
             /\ (start = today /\ end = today + 7
                   /\ ParseTime(f[3]) # NoTime /\ ParseTime(f[3]) < ParseTime(f[4]))
                   => r = "AvailabilitySet")

\* C12 witness: the registry holds a window that begins on the current day
\* and ends seven days later, and a form has just been refused because its
\* range ends too far ahead.
C12_Witness ==
    /\ last = "RangeTooFar"
    /\ \E i \in DOMAIN availability :
          /\ ParseDate(availability[i].start_date) = today
          /\ ParseDate(availability[i].end_date) = today + 7

\* C13: every window of the registry has start_date <= end_date as calendar
\* dates and start_time < end_time as clock times, whatever was added and
\* deleted: add_availability gives EndBeforeStart when end_date is before
\* start_date and EndTimeNotAfterStart when end_time is not after start_time,
\* equal times included, and adds no window then.
C13_WindowsWellOrdered ==
    /\ [](\A i \in DOMAIN availability :
             /\ ParseDate(availability[i].start_date) # NoDate
             /\ ParseDate(availability[i].start_date)
                   <= ParseDate(availability[i].end_date)
             /\ ParseTime(availability[i].start_time) # NoTime
             /\ ParseTime(availability[i].start_time)
                   < ParseTime(availability[i].end_time))
    /\ [](\A c \in DoctorClients, f \in AvailRequests :
             LET r == doctor_add_availability_result(c, f[1], f[2], f[3], f[4])
                 dates_in_range == /\ today <= ParseDate(f[1])
                                   /\ ParseDate(f[2]) <= today + 7
             IN
             /\ (dates_in_range /\ ParseDate(f[2]) < ParseDate(f[1]))
                   => r = "EndBeforeStart"
             /\ (dates_in_range /\ ParseDate(f[1]) <= ParseDate(f[2])
                   /\ ParseTime(f[3]) # NoTime /\ ParseTime(f[4]) # NoTime
                   /\ ParseTime(f[4]) <= ParseTime(f[3]))
                   => r = "EndTimeNotAfterStart")
    /\ [][ last' \in {"EndBeforeStart", "EndTimeNotAfterStart"}
             => availability' = availability ]_vars

\* C13 witness: the registry holds a window, and a form whose end time is
\* not after its start time has just been refused.
C13_Witness ==
    /\ availability # <<>>
    /\ last = "EndTimeNotAfterStart"

\* C14: add_availability never merges or deduplicates: every accepted form
\* appends exactly one window, the form's for the doctor of the session, and
\* leaves the windows already there as they were, so the same form accepted
\* twice gives the doctor two equal windows.
C14_AddAppendsOneWindow ==
    [][ \A c \in DoctorClients, f \in AvailRequests :
          (/\ doctor_add_availability(c, f[1], f[2], f[3], f[4])
           /\ doctor_add_availability_result(c, f[1], f[2], f[3], f[4])
                 = "AvailabilitySet")
          => /\ Len(availability') = Len(availability) + 1
             /\ SubSeq(availability', 1, Len(availability)) = availability
             /\ NewWindow = [doctor_id |-> session[c].user_id,
                             start_date |-> f[1], end_date |-> f[2],
                             start_time |-> f[3], end_time |-> f[4]]
      ]_vars

\* C14 witness: two equal windows in the registry, the second just added.
C14_Witness ==
    /\ last = "AvailabilitySet"
    /\ \E i, j \in DOMAIN availability : i # j /\ availability[i] = availability[j]

\* The window at place i of the registry covers the request: its dates as
\* calendar dates, its times as the strings they are.
Covers(i, date, time) ==
    /\ date_in_range(ParseDate(availability[i].start_date), ParseDate(date),
                     ParseDate(availability[i].end_date))
    /\ time_in_window(availability[i].start_time, time, availability[i].end_time)

\* The doctor's window that was registered earliest among those still in
\* the registry; the doctor has one.
EarliestWindow(doc) ==
    CHOOSE i \in DOMAIN availability :
        /\ availability[i].doctor_id = doc
        /\ \A j \in 1..(i - 1) : availability[j].doctor_id # doc

OutsideEveryWindow(doc, date, time) ==
    \A i \in DOMAIN availability :
        availability[i].doctor_id = doc => ~Covers(i, date, time)

\* The patient holds another appointment at the slot, with a different doctor.
HoldsElsewhere(a, date, time) ==
    \E i \in DOMAIN appointments :
        /\ i # a
        /\ appointments[i].patient_id = appointments[a].patient_id
        /\ appointments[i].doctor_id # appointments[a].doctor_id
        /\ appointments[i].date = date /\ appointments[i].time = time

\* Another appointment of the same doctor occupies the slot.
DoctorOccupied(a, date, time) ==
    \E i \in DOMAIN appointments :
        /\ i # a
        /\ appointments[i].doctor_id = appointments[a].doctor_id
        /\ appointments[i].date = date /\ appointments[i].time = time

\* C16: reschedule re-checks only the doctor-level conflict: a reschedule by
\* the owning patient to a slot outside every window of the doctor, or at
\* which the patient holds another appointment with a different doctor,
\* succeeds whenever no other appointment of the same doctor occupies the
\* slot, and the appointment then carries the new date and time.
C16_RescheduleChecksDoctorOnly ==
    /\ [](\A c \in PatientClients, a \in DOMAIN appointments, slot \in ReschedSlots :
             (/\ appointments[a].patient_id = session[c].user_id
              /\ \/ OutsideEveryWindow(appointments[a].doctor_id, slot[1], slot[2])
                 \/ HoldsElsewhere(a, slot[1], slot[2])
              /\ ~DoctorOccupied(a, slot[1], slot[2]))
             => patient_reschedule_appointment_result(c, a, slot[1], slot[2])
                   = "Rescheduled")
    /\ [][ \A c \in PatientClients, a \in DOMAIN appointments, slot \in ReschedSlots :
             (/\ patient_reschedule_appointment(c, a, slot[1], slot[2])
              /\ last' = "Rescheduled")
             => /\ appointments'[a].date = slot[1]
                /\ appointments'[a].time = slot[2]
         ]_vars

\* C16 witness: a reschedule has just succeeded, and a patient holds two
\* appointments, with different doctors, at one slot on the day after the
\* windows end.
C16_Witness ==
    /\ last = "Rescheduled"
    /\ \E a \in DOMAIN appointments :
          /\ appointments[a].date = d0608
          /\ OutsideEveryWindow(appointments[a].doctor_id, d0608, appointments[a].time)
          /\ HoldsElsewhere(a, d0608, appointments[a].time)

-----------------------------------------------------------------------------
(* Properties of the treatment records                                     *)

\* The record a saved form leaves for the appointment.
TreatmentRow(a, f) ==
    [appointment_id |-> a, diagnosis |-> Strip(f[1]),
     prescription |-> Strip(f[2]), notes |-> Strip(f[3])]

HasTreatment(a) == \E i \in DOMAIN treatments : treatments[i].appointment_id = a

\* C18: every appointment has at most one treatment record: a successful
\* add_treatment for an appointment without a record creates it, and a
\* successful one for an appointment with a record overwrites that record's
\* diagnosis, prescription and notes, adds none and leaves the records of
\* the other appointments alone.
C18_OneTreatmentPerAppointment ==
    /\ [](\A i, j \in DOMAIN treatments :
             treatments[i].appointment_id = treatments[j].appointment_id => i = j)
    /\ [][ \A c \in DoctorClients, a \in DOMAIN appointments, f \in TreatForms :
             (/\ doctor_add_treatment(c, a, f[1], f[2], f[3])
              /\ doctor_add_treatment_result(c, a, Strip(f[1])) = "TreatmentSaved")
             => IF HasTreatment(a)
                THEN /\ Len(treatments') = Len(treatments)
                     /\ \A i \in DOMAIN treatments :
                           treatments'[i] = IF treatments[i].appointment_id = a
                                            THEN TreatmentRow(a, f)
                                            ELSE treatments[i]
                ELSE treatments' = Append(treatments, TreatmentRow(a, f))
         ]_vars

\* C18 witness: two appointments have a record each, the one created first
\* being the second appointment's, and the first appointment's record
\* carries the later form's diagnosis, prescription and notes.
C18_Witness ==
    /\ last = "TreatmentSaved"
    /\ Len(treatments) = 2
    /\ treatments[1].appointment_id = 2
    /\ treatments[2] = [appointment_id |-> 1, diagnosis |-> <<"c", "o", "l", "d">>,
                        prescription |-> <<>>, notes |-> <<"r", "e", "s", "t">>]

-----------------------------------------------------------------------------
(* Properties of the clinic                                                *)

\* C17: an appointment is created only through the accept path of booking:
\* a step that changes the number of appointments is an accepted booking
\* that appends one row with status Booked whose date lies in the doctor's
\* consulted window and whose time lies between that window's times, as the
\* registry stands at that moment; every other step (reschedule, cancel,
\* status update, add treatment, availability add and delete) keeps each
\* appointment in its place with its patient and its doctor.
C17_OnlyBookingCreatesAppointments ==
    [][ /\ \A i \in DOMAIN appointments :
             /\ i \in DOMAIN appointments'
             /\ appointments'[i].patient_id = appointments[i].patient_id
             /\ appointments'[i].doctor_id = appointments[i].doctor_id
        /\ Len(appointments') # Len(appointments) =>
             LET new == appointments'[Len(appointments')] IN
             /\ last' = "Booked"
             /\ appointments' = Append(appointments, new)
             /\ new.status = "Booked"
             /\ ~NoWindow(new.doctor_id)
             /\ Covers(EarliestWindow(new.doctor_id), new.date, new.time)
      ]_vars

\* C17 witness: the one appointment has been moved to the day after the
\* window, completed and given a treatment record, and the window it was
\* booked in has been deleted.
C17_Witness ==
    /\ Len(appointments) = 1
    /\ appointments[1].date = d0608
    /\ appointments[1].status = "Completed"
    /\ treatments # <<>>
    /\ availability = <<>>

\* The messages of a refused booking, reschedule, status update or
\* availability form: a missing or malformed field, a conflict, a date or
\* time out of the window, an invalid status, a user not authorized.
Rejected ==
    { "LoginRequired", "AccessDenied",
      "DoctorDateTimeRequired", "MalformedInput", "NoAvailability",
      "DateOutOfRange", "TimeOutOfRange", "SlotTaken", "PatientConflict",
      "NotAuthorized", "DateTimeRequired", "SlotAlreadyBooked",
      "NotAuthorizedToUpdate", "InvalidStatus",
      "AvailabilityFieldsRequired", "InvalidDate", "StartInPast", "RangeTooFar",
      "EndBeforeStart", "InvalidTime", "EndTimeNotAfterStart" }

\* C19: a booking, reschedule, status-update or add-availability request
\* that is refused for a missing or malformed field, a conflict, a slot out
\* of the window, an invalid status or a user not authorized is answered
\* with a redirect and leaves the appointments and the availability
\* registry exactly as they were.
C19_RejectionChangesNothing ==
    [][ last' \in Rejected =>
          /\ appointments' = appointments
          /\ availability' = availability
          /\ response_of(last') = "redirect"
      ]_vars

\* C19 witness: with an appointment in the ledger and a window in the
\* registry, a status update has just been refused for its status.
C19_Witness ==
    /\ last = "InvalidStatus"
    /\ appointments # <<>>
    /\ availability # <<>>

\* A ten-character date that strptime reads with %Y-%m-%d.
WellFormedDate(date) == Len(date) = 10 /\ ParseDate(date) # NoDate

\* A five-character time that strptime reads with %H:%M.
WellFormedTime(time) == Len(time) = 5 /\ ParseTime(time) # NoTime

\* C20: a booking request whose date is not a well-formed YYYY-MM-DD string
\* or whose time is not a well-formed HH:MM string is never accepted and
\* never answered with TimeOutOfRange, and it is answered with
\* MalformedInput once the doctor has a window.
C20_MalformedBookingRefused ==
    \A c \in PatientClients, slot \in ClinicSlots :
        LET r == patient_book_appointment_result(c, <<"1">>, slot[1], slot[2]) IN
        (/\ Strip(slot[1]) # <<>> /\ Strip(slot[2]) # <<>>
         /\ ~(WellFormedDate(slot[1]) /\ WellFormedTime(slot[2])))
        => /\ r \notin {"Booked", "TimeOutOfRange"}
           /\ ~NoWindow(1) => r = "MalformedInput"

-----------------------------------------------------------------------------
(* Properties of the time comparison                                       *)

\* C21: on zero-padded HH:MM strings the string comparison of the booking
\* time check orders as the clock does: a time is below (above) the
\* window's start or end time as a string exactly when it is earlier
\* (later) on the clock, so the string test of the window is the
\* time-of-day test, and a request is answered with TimeOutOfRange exactly
\* when its clock time lies outside the window.
C21_StringOrderIsClockOrder ==
    \A time \in ClockTimes :
        LET w == availability[1]
            t == ParseTime(time)
            st == ParseTime(w.start_time)
            et == ParseTime(w.end_time)
        IN
        /\ t # NoTime
        /\ StrLess(time, w.start_time) <=> t < st
        /\ StrLess(w.start_time, time) <=> st < t
        /\ StrLess(time, w.end_time) <=> t < et
        /\ StrLess(w.end_time, time) <=> et < t
        /\ time_in_window(w.start_time, time, w.end_time) <=> (st <= t /\ t <= et)
        /\ patient_book_appointment_result(4, <<"1">>, d0605, time) = "TimeOutOfRange"
              <=> ~(st <= t /\ t <= et)

\* C21 witness: with the window 09:10 to 20:00, a request at 10:00 was
\* accepted and a request at another time has just been refused for its
\* time.
C21_Witness ==
    /\ last = "TimeOutOfRange"
    /\ availability[1].start_time = Two(9) \o <<":">> \o Two(10)
    /\ availability[1].end_time = Two(20) \o <<":">> \o Two(0)
    /\ \E i \in DOMAIN appointments : appointments[i].time = t1000

-----------------------------------------------------------------------------
(* Properties of a patient's own appointments                              *)

\* The doctor's consulted window covers the slot.
WindowCovers(doc, date, time) ==
    ~NoWindow(doc) /\ Covers(EarliestWindow(doc), date, time)

\* C22: when patient P holds an appointment with doctor D1 at (date, time),
\* a request of P for another doctor D2 at the same (date, time), D2's
\* window covering the slot and D2 having no appointment there, is answered
\* with PatientConflict, and a request answered so adds no appointment.
C22_PatientConflictAcrossDoctors ==
    /\ [](\A c \in PatientClients, i \in DOMAIN appointments, f \in DoctorIdFields :
             LET row == appointments[i]
                 d2 == IntOf(f)
             IN
             (/\ row.patient_id = session[c].user_id
              /\ d2 # row.doctor_id
              /\ WindowCovers(d2, row.date, row.time)
              /\ ~FailsSlotTaken(d2, row.date, row.time))
             => patient_book_appointment_result(c, f, row.date, row.time)
                   = "PatientConflict")
    /\ [][ last' = "PatientConflict" => appointments' = appointments ]_vars

\* C22 witness: the one appointment of the ledger is Booked, and its
\* patient's request for the same date and time has just been refused with
\* PatientConflict.
C22_Witness ==
    /\ last = "PatientConflict"
    /\ Len(appointments) = 1
    /\ appointments[1].status = "Booked"

\* C25: the patient's conflict check counts appointments of any status:
\* while a Cancelled appointment of patient P keeps its date and time,
\* every booking request of P at that date and time, with the same doctor
\* or another, is refused with SlotTaken or PatientConflict, and a request
\* refused so adds no appointment.
C25_CancelledStillConflicts ==
    /\ [](\A c \in PatientClients, i \in DOMAIN appointments, f \in DoctorIdFields :
             (/\ appointments[i].patient_id = session[c].user_id
              /\ appointments[i].status = "Cancelled")
             => patient_book_appointment_result(c, f, appointments[i].date,
                                                appointments[i].time)
                   \in {"SlotTaken", "PatientConflict"})
    /\ [][ last' \in {"SlotTaken", "PatientConflict"}
             => appointments' = appointments ]_vars

\* C25 witness: the one appointment of the ledger is Cancelled, and its
\* patient's request for the same date and time with another doctor has
\* just been refused with PatientConflict.
C25_Witness ==
    /\ last = "PatientConflict"
    /\ Len(appointments) = 1
    /\ appointments[1].status = "Cancelled"

\* C26: the conflict check of reschedule leaves out the appointment being
\* rescheduled and counts every other appointment of the same doctor,
\* whatever its status: the owner's reschedule of an appointment to its own
\* date and time succeeds, and a reschedule to the date and time of another
\* appointment of the same doctor is refused.
C26_RescheduleExcludesItself ==
    \A c \in PatientClients, a \in DOMAIN appointments :
        appointments[a].patient_id = session[c].user_id =>
          /\ patient_reschedule_appointment_result(c, a, appointments[a].date,
                                                   appointments[a].time)
                = "Rescheduled"
          /\ \A b \in DOMAIN appointments :
                (b # a /\ appointments[b].doctor_id = appointments[a].doctor_id)
                => patient_reschedule_appointment_result(c, a, appointments[b].date,
                                                         appointments[b].time)
                      = "SlotAlreadyBooked"

\* C27: a successful reschedule is applied to a Booked appointment and
\* rewrites only its date and time: the appointment's status, doctor and
\* patient, every other appointment and the registry stay as they were.
C27_RescheduleOfBookedOnly ==
    [][ \A c \in PatientClients, a \in DOMAIN appointments, time \in LedgerTimes :
          (/\ patient_reschedule_appointment(c, a, d0605, time)
           /\ patient_reschedule_appointment_result(c, a, d0605, time)
                 = "Rescheduled")
          => /\ appointments[a].status = "Booked"
             /\ appointments' = [appointments EXCEPT ![a].date = d0605,
                                                     ![a].time = time]
             /\ availability' = availability
      ]_vars

-----------------------------------------------------------------------------
(* Properties of ownership                                                 *)

\* C23: acting on another user's resource is refused without effect: a
\* doctor's status update or treatment for an appointment of another
\* doctor, a doctor's deletion of another doctor's window, and a patient's
\* reschedule or cancellation of another patient's appointment get the
\* not-authorized message, and a request answered so leaves the
\* appointments, the treatments and the registry unchanged.
C23_StrangersChangeNothing ==
    /\ [](\A c \in DoctorClients, a \in DOMAIN appointments :
             appointments[a].doctor_id # session[c].user_id =>
               /\ doctor_update_appointment_status_result(c, a, "Completed")
                     = "NotAuthorizedToUpdate"
               /\ doctor_add_treatment_result(c, a, flu) = "NotAuthorized")
    /\ [](\A c \in DoctorClients, w \in DOMAIN availability :
             availability[w].doctor_id # session[c].user_id =>
               doctor_delete_availability_result(c, w) = "NotAuthorizedToDelete")
    /\ [](\A c \in PatientClients, a \in DOMAIN appointments :
             appointments[a].patient_id # session[c].user_id =>
               /\ patient_reschedule_appointment_result(c, a, d0605, t1700)
                     = "NotAuthorized"
               /\ patient_cancel_appointment_result(c, a) = "NotAuthorized")
    /\ [][ last' \in {"NotAuthorized", "NotAuthorizedToUpdate", "NotAuthorizedToDelete"}
             => /\ appointments' = appointments
                /\ treatments' = treatments
                /\ availability' = availability ]_vars

\* C23 witness: with a Booked appointment that has a treatment record, and
\* a window left in the registry, a request on a stranger's resource has
\* just been refused.
C23_Witness ==
    /\ last \in {"NotAuthorized", "NotAuthorizedToUpdate", "NotAuthorizedToDelete"}
    /\ \E a \in DOMAIN appointments :
          appointments[a].status = "Booked" /\ HasTreatment(a)
    /\ availability # <<>>

-----------------------------------------------------------------------------
(* Properties of registration                                              *)

\* Some row of the table carries the email.
Registered(rows, email) == \E i \in DOMAIN rows : rows[i].email = email

\* Every form field has text besides blanks.
Filled(f) == Strip(f[1]) # <<>> /\ Strip(f[2]) # <<>> /\ Strip(f[3]) # <<>>

\* The table has gained one row, its last, and the lookup by the email
\* returns that row; the rows it had are as they were.
AddsOne(rows, rows_after, email) ==
    /\ Len(rows_after) = Len(rows) + 1
    /\ SubSeq(rows_after, 1, Len(rows)) = rows
    /\ rows_after[Len(rows_after)].email = email
    /\ \A i \in DOMAIN rows_after :
          rows_after[i].email = email => i = Len(rows_after)

\* C24: registering a patient (a doctor) with an email no patient (doctor)
\* has adds exactly one record, which the lookup by that email returns;
\* registering with an email a patient (doctor) already has adds nothing;
\* so no two patients share an email and no two doctors share an email.
C24_RegistrationKeepsEmailsUnique ==
    /\ [](\A i, j \in DOMAIN patients :
             patients[i].email = patients[j].email => i = j)
    /\ [](\A i, j \in DOMAIN doctors :
             doctors[i].email = doctors[j].email => i = j)
    /\ [][ \A f \in RegForms :
             (register_patient(4, f[1], f[2], f[3]) /\ Filled(f))
             => IF Registered(patients, Strip(f[2]))
                THEN patients' = patients
                ELSE AddsOne(patients, patients', Strip(f[2])) ]_vars
    /\ [][ \A f \in RegForms :
             (register_doctor(1, f[1], f[2], f[3]) /\ Filled(f)
                /\ session[1].role = "admin")
             => IF Registered(doctors, Strip(f[2]))
                THEN doctors' = doctors
                ELSE AddsOne(doctors, doctors', Strip(f[2])) ]_vars

\* C24 witness: two patients and a doctor have registered, and a
\* registration with an email already in the table has just been refused.
C24_Witness ==
    /\ last = "EmailAlreadyRegistered"
    /\ Len(patients) = Len(SeededPatients) + 2
    /\ Len(doctors) = Len(SeededDoctors) + 1

-----------------------------------------------------------------------------
(* Properties of the role guard                                            *)

\* The messages of role_required when it does not run the body.
Refused == {"LoginRequired", "AccessDenied"}

\* The message of the login that gives a session the role.
LoginSuccessful(role) ==
    CASE role = "admin" -> "AdminLoginSuccessful"
      [] role = "doctor" -> "DoctorLoginSuccessful"
      [] role = "patient" -> "PatientLoginSuccessful"

\* C28: a handler guarded by role_required(r) runs its body only when the
\* session's role is r: with no session or a session of another role every
\* admin, doctor or patient operation gets the guard's message, and a
\* request answered so is a redirect that leaves the appointments, the
\* registry, the treatments, the user records and the session unchanged;
\* the tables change only under the role of the operation that writes
\* them; and a session gets a role only by a successful login for that
\* role.
C28_RoleGuard ==
    /\ [](session[1].role # "admin" =>
             /\ admin_update_appointment_status_result(1, 1, "Completed") \in Refused
             /\ register_doctor_result(1, ana, ana, secret) \in Refused)
    /\ [](session[1].role # "doctor" =>
             /\ doctor_add_availability_result(1, d0601, d0607, t0900, t1700)
                   \in Refused
             /\ doctor_delete_availability_result(1, 1) \in Refused
             /\ doctor_update_appointment_status_result(1, 1, "Cancelled") \in Refused
             /\ doctor_add_treatment_result(1, 1, flu) \in Refused)
    /\ [](session[1].role # "patient" =>
             /\ patient_book_appointment_result(1, <<"1">>, d0605, t1000) \in Refused
             /\ patient_reschedule_appointment_result(1, 1, d0605, t1700) \in Refused
             /\ patient_cancel_appointment_result(1, 1) \in Refused)
    /\ [][ last' \in Refused =>
             /\ response_of(last') = "redirect"
             /\ UNCHANGED <<appointments, availability, treatments, patients,
                            doctors, doctor_blacklisted, patient_blacklisted,
                            session>> ]_vars
    /\ [][ /\ (doctors' # doctors \/ patient_blacklisted' # patient_blacklisted)
               => session[1].role = "admin"
           /\ (availability' # availability \/ treatments' # treatments)
               => session[1].role = "doctor"
           /\ Len(appointments') # Len(appointments) => session[1].role = "patient"
           /\ appointments' # appointments => session[1].role # "" ]_vars
    /\ [][ (session'[1] # session[1] /\ session'[1].role # "")
             => last' = LoginSuccessful(session'[1].role) ]_vars

\* C28 witness: after a patient has booked, a doctor has registered a window
\* and saved a treatment, and the admin has registered a doctor, a request
\* under the wrong role has just been refused.
C28_Witness ==
    /\ last = "AccessDenied"
    /\ appointments # <<>>
    /\ availability # <<>>
    /\ treatments # <<>>
    /\ Len(doctors) > Len(SeededDoctors)

=============================================================================
